---------------------------- MODULE Spec2Model ----------------------------
(***************************************************************************)
(* PromoPilot backend: artifact build (app/ml/train.py), artifact and      *)
(* response caches (app/core/cache.py), policy recommender                 *)
(* (app/ml/policy.py) and the recommend endpoint (app/api/routes.py).      *)
(*                                                                         *)
(* Numbers.  Every real number of the program (a mean, a confidence bound, *)
(* a delta) is a fixed-point integer in units of 10^-7, so that the        *)
(* scaling by 10,000 and the rounding to two decimals of policy.py are     *)
(* computed and not assumed.                                               *)
(*                                                                         *)
(* Dictionaries.  A Python dict is a function whose DOMAIN is its key set; *)
(* d.get(k, default) is a test of k \in DOMAIN d.  JSON object keys are    *)
(* strings, so the per-level maps of an artifact are keyed by the decimal  *)
(* string of the level and recommend_policy converts them back.            *)
(***************************************************************************)
EXTENDS Integers, Sequences, FiniteSets, TLC

(***************************************************************************)
(* Bounds of the model.                                                    *)
(***************************************************************************)
\* levels are drawn from 0..MaxLevel
MaxLevel == 2
\* raw means are drawn from {0, 4, .., 4 * MaxMean} (units of 10^-7)
MaxMean == 2

(***************************************************************************)
(* Program constants.                                                      *)
(***************************************************************************)
SCALE_PER_10K == 10000
\* round(x, 2): one hundredth, in units of 10^-7
Hundredth == 100000
\* the default of baseline_info.get("policy_level", 2)
DefaultBaselineLevel == 2
\* the level build_artifacts pins: {"name": "current_policy", "discount_pct": 10}
PinnedBaselineLevel == 10

TrackedOutcomes == {"task_success", "safe_value", "safety_incident", "latency_ms"}
RateOutcomes == {"task_success", "safe_value", "safety_incident"}
\* Settings.objectives, also OBJECTIVES of export_static_recommendations.py
Objectives == {"task_success", "safe_value"}
Methods == {"naive", "dr"}
\* the keys that combine_dose_responses gives each level's summary
CombinedOutcomes == {"bookings", "net_value"}

(***************************************************************************)
(* Helpers on sequences.                                                   *)
(***************************************************************************)
Range(s) == {s[i] : i \in DOMAIN s}

Abs(x) == IF x < 0 THEN -x ELSE x

\* sorted(set(...)) of a set of integers
RECURSIVE SortedSeq(_)
SortedSeq(S) ==
    IF S = {} THEN <<>>
    ELSE LET m == CHOOSE x \in S : \A y \in S : x <= y
         IN <<m>> \o SortedSeq(S \ {m})

\* str(level) for the levels of the model and int(key), its inverse
Decimal ==
    [t \in (0..10) \cup {15, 20} |->
        IF t <= 10
        THEN <<"0", "1", "2", "3", "4", "5", "6", "7", "8", "9", "10">>[t + 1]
        ELSE IF t = 15 THEN "15" ELSE "20"]
LevelKey(t) == Decimal[t]
KeyLevel(k) == CHOOSE t \in DOMAIN Decimal : Decimal[t] = k

\* lexicographic order of the segment keys, as sorted(..., key=str) sees them
SegmentOrder == <<"all", "entry", "mid", "premium">>
SortedKeys(S) == SelectSeq(SegmentOrder, LAMBDA k : k \in S)

(***************************************************************************)
(* policy.py                                                               *)
(***************************************************************************)
_as_int_keyed_map(raw) == [t \in {KeyLevel(k) : k \in DOMAIN raw} |-> raw[LevelKey(t)]]

_to_per_10k(value) == value * SCALE_PER_10K

\* Python's round(x, 2): to the nearest hundredth, an exact half to the even one
Round2(x) ==
    LET r == x % Hundredth
        lo == x - r
    IN IF 2 * r < Hundredth THEN lo
       ELSE IF 2 * r > Hundredth THEN lo + Hundredth
       ELSE IF (lo \div Hundredth) % 2 = 0 THEN lo ELSE lo + Hundredth

_objective_score(summary, objective) == summary[objective].mean

\* make_segment_label: "All traffic", or "<prefix>=<value>" kept as a pair
SEGMENT_LABEL_PREFIX ==
    [none |-> "All", device_tier |-> "Device", prompt_risk |-> "Risk", task_domain |-> "Domain"]

make_segment_label(segment_by, segment_value) ==
    IF segment_by = "none" THEN <<"All traffic">>
    ELSE <<IF segment_by \in DOMAIN SEGMENT_LABEL_PREFIX
           THEN SEGMENT_LABEL_PREFIX[segment_by] ELSE segment_by, segment_value>>

\* min in the place of max
MinFirst(scored) ==
    LET best == CHOOSE i \in DOMAIN scored :
                    /\ \A j \in DOMAIN scored : scored[i][2] <= scored[j][2]
                    /\ \A j \in DOMAIN scored : scored[j][2] = scored[i][2] => i <= j
    IN scored[best]

\* max(scored, key=score): the first element no later element strictly beats
MaxFirstLast(scored) ==
    LET best == CHOOSE i \in DOMAIN scored :
                    /\ \A j \in DOMAIN scored : scored[j][2] <= scored[i][2]
                    /\ \A j \in DOMAIN scored : scored[j][2] = scored[i][2] => j <= i
    IN scored[best]

MaxFirst(scored) ==
    LET best == CHOOSE i \in DOMAIN scored :
                    /\ \A j \in DOMAIN scored : scored[j][2] <= scored[i][2]
                    /\ \A j \in DOMAIN scored : scored[j][2] = scored[i][2] => i <= j
    IN scored[best]

\* min(treatment_levels, key=lambda t: abs(t - baseline_level))
NearestLevel(treatment_levels, configured) ==
    LET best == CHOOSE i \in DOMAIN treatment_levels :
                    /\ \A j \in DOMAIN treatment_levels :
                          Abs(treatment_levels[i] - configured) <= Abs(treatment_levels[j] - configured)
                    /\ \A j \in DOMAIN treatment_levels :
                          Abs(treatment_levels[j] - configured) = Abs(treatment_levels[i] - configured)
                             => i <= j
    IN treatment_levels[best]

Raise(exc, kind) == [status |-> "error", exc |-> exc, kind |-> kind]

\* line 36
CandidateTreatmentsUnfiltered(treatment_levels, max_policy_level) == treatment_levels

CandidateTreatments(treatment_levels, max_policy_level) ==
    SelectSeq(treatment_levels, LAMBDA t : t <= max_policy_level)

\* lines 42-45: the baseline level of one call
BaselineInfo(dose_response) ==
    IF "baseline" \in DOMAIN dose_response THEN dose_response.baseline
    ELSE [name |-> "current_policy", policy_level |-> DefaultBaselineLevel]

BaselineLevel(dose_response) ==
    LET baseline_info == BaselineInfo(dose_response)
        configured == IF "policy_level" \in DOMAIN baseline_info
                      THEN baseline_info.policy_level ELSE DefaultBaselineLevel
        treatment_levels == dose_response.treatment_levels
    IN IF configured \in Range(treatment_levels) THEN configured
       ELSE NearestLevel(treatment_levels, configured)

\* lines 22-25: the (key, entry) pairs in iteration order; "all" must exist
\* for segment_by == "none"
_sorted_segments(segment_by, segment_map) ==
    IF segment_by = "none" THEN <<"all">> ELSE SortedKeys(DOMAIN segment_map)

\* every lookup of lines 62-117 of one segment finds its key
LookupsSucceed(treatment_map, treatment_levels, objective) ==
    \A i \in DOMAIN treatment_levels :
        /\ treatment_levels[i] \in DOMAIN treatment_map
        /\ (TrackedOutcomes \cup {objective}) \subseteq DOMAIN treatment_map[treatment_levels[i]]

\* lines 99-121: the chart points of one segment, one per level of the artifact
CurvePointsCandidates(treatment_map, treatment_levels, candidate_treatments, objective) ==
    [i \in DOMAIN candidate_treatments |->
        LET treatment_summary == treatment_map[candidate_treatments[i]]
            objective_ci == treatment_summary[objective]
        IN [policy_level |-> candidate_treatments[i],
            successes_per_10k |-> Round2(_to_per_10k(treatment_summary["task_success"].mean)),
            safe_value_per_10k |-> Round2(_to_per_10k(treatment_summary["safe_value"].mean)),
            incidents_per_10k |-> Round2(_to_per_10k(treatment_summary["safety_incident"].mean)),
            latency_ms |-> Round2(treatment_summary["latency_ms"].mean),
            ci_low |-> Round2(_to_per_10k(objective_ci.ci_low)),
            ci_high |-> Round2(_to_per_10k(objective_ci.ci_high))]]

CurvePoints(treatment_map, treatment_levels, candidate_treatments, objective) ==
    [i \in DOMAIN treatment_levels |->
        LET treatment_summary == treatment_map[treatment_levels[i]]
            objective_ci == treatment_summary[objective]
            ci_low == IF objective \in RateOutcomes
                      THEN _to_per_10k(objective_ci.ci_low) ELSE objective_ci.ci_low
            ci_high == IF objective \in RateOutcomes
                       THEN _to_per_10k(objective_ci.ci_high) ELSE objective_ci.ci_high
        IN [policy_level |-> treatment_levels[i],
            successes_per_10k |-> Round2(_to_per_10k(treatment_summary["task_success"].mean)),
            safe_value_per_10k |-> Round2(_to_per_10k(treatment_summary["safe_value"].mean)),
            incidents_per_10k |-> Round2(_to_per_10k(treatment_summary["safety_incident"].mean)),
            latency_ms |-> Round2(treatment_summary["latency_ms"].mean),
            ci_low |-> Round2(ci_low),
            ci_high |-> Round2(ci_high)]]

\* lines 61-97: the recommendation of one segment
SegmentRow(treatment_map, candidate_treatments, baseline_level, objective, segment_label) ==
    LET scored == [i \in DOMAIN candidate_treatments |->
                      <<candidate_treatments[i],
                        _objective_score(treatment_map[candidate_treatments[i]], objective)>>]
        recommended_level == MaxFirst(scored)[1]
        rec_summary == treatment_map[recommended_level]
        baseline_summary == treatment_map[baseline_level]
    IN [segment |-> segment_label,
        recommended_policy_level |-> recommended_level,
        expected_successes_per_10k |-> Round2(_to_per_10k(rec_summary["task_success"].mean)),
        expected_safe_value_per_10k |-> Round2(_to_per_10k(rec_summary["safe_value"].mean)),
        expected_incidents_per_10k |-> Round2(_to_per_10k(rec_summary["safety_incident"].mean)),
        expected_latency_ms |-> Round2(rec_summary["latency_ms"].mean),
        delta_vs_baseline |->
            [successes_per_10k |->
                 Round2(_to_per_10k(rec_summary["task_success"].mean - baseline_summary["task_success"].mean)),
             safe_value_per_10k |->
                 Round2(_to_per_10k(rec_summary["safe_value"].mean - baseline_summary["safe_value"].mean)),
             incidents_per_10k |->
                 Round2(_to_per_10k(rec_summary["safety_incident"].mean - baseline_summary["safety_incident"].mean)),
             latency_ms |-> Round2(rec_summary["latency_ms"].mean - baseline_summary["latency_ms"].mean),
             avg_policy_level |-> recommended_level - baseline_level]]

\* The outcome of the loop body (lines 56-123) for one segment: the exception
\* it raises, or "ok".
SegmentFailureSubscript(segment_entry, method, treatment_levels, objective) ==
    IF method \notin DOMAIN segment_entry THEN "KeyError"
    ELSE IF ~LookupsSucceed(_as_int_keyed_map(segment_entry[method]), treatment_levels, objective)
         THEN "KeyError"
         ELSE "ok"

SegmentFailure(segment_entry, method, treatment_levels, objective) ==
    IF method \notin DOMAIN segment_entry THEN "UnsupportedMethod"
    ELSE IF ~LookupsSucceed(_as_int_keyed_map(segment_entry[method]), treatment_levels, objective)
         THEN "KeyError"
         ELSE "ok"

recommend_policy(dose_response, objective, max_policy_level, segment_by, method) ==
    LET treatment_levels == dose_response.treatment_levels
        candidate_treatments == CandidateTreatments(treatment_levels, max_policy_level)
        baseline_info == BaselineInfo(dose_response)
        baseline_level == BaselineLevel(dose_response)
        segmentations == IF "segmentations" \in DOMAIN dose_response
                         THEN dose_response.segmentations ELSE <<>>
    IN IF candidate_treatments = <<>> THEN Raise("ValueError", "NoFeasibleLevel")
       ELSE IF segment_by \notin DOMAIN segmentations
            THEN Raise("ValueError", "UnsupportedSegmentation")
       ELSE IF segment_by = "none" /\ "all" \notin DOMAIN segmentations[segment_by]
            THEN Raise("KeyError", "KeyError")
       ELSE
         LET segmentation_payload == segmentations[segment_by]
             order == _sorted_segments(segment_by, segmentation_payload)
             failure(i) == SegmentFailure(segmentation_payload[order[i]], method,
                                          treatment_levels, objective)
             failing == {i \in DOMAIN order : failure(i) # "ok"}
         IN IF failing # {}
            THEN LET first == CHOOSE i \in failing : \A j \in failing : i <= j
                 IN IF failure(first) = "KeyError" THEN Raise("KeyError", "KeyError")
                    ELSE Raise("ValueError", "UnsupportedMethod")
            ELSE
              [status |-> "ok",
               segments |->
                   [i \in DOMAIN order |->
                       SegmentRow(_as_int_keyed_map(segmentation_payload[order[i]][method]),
                                  candidate_treatments, baseline_level, objective,
                                  make_segment_label(segment_by, order[i]))],
               dose_response |->
                   [i \in DOMAIN order |->
                       [segment |-> make_segment_label(segment_by, order[i]),
                        points |-> CurvePoints(
                                       _as_int_keyed_map(segmentation_payload[order[i]][method]),
                                       treatment_levels, candidate_treatments, objective)]],
               baseline |->
                   [name |-> IF "name" \in DOMAIN baseline_info
                             THEN baseline_info.name ELSE "current_policy",
                    policy_level |-> baseline_level]]


(***************************************************************************)
(* train.py: what build_artifacts computes before it writes anything.      *)
(*                                                                         *)
(* generate_synthetic_data draws every row from numpy's default_rng(seed)  *)
(* and the models are fitted with fixed random states, so the table of     *)
(* estimates is a function of (seed, rows, treatment_levels).  The         *)
(* statistics themselves are summarised by EstimateOf, a fixed function of *)
(* those inputs and of the table position.                                 *)
(***************************************************************************)
DEFAULT_TREATMENT_LEVELS == <<0, 5, 10, 15, 20>>

\* SEGMENT_COLUMNS of data_schema.py, two of its three named segmentations
\* left out (they are handled by the same loop body)
SEGMENT_COLUMNS == [none |-> "__all__", device_tier |-> "device_tier"]

\* the partitions _segment_masks returns on the generated data
SegmentsOf(segment_by) == IF segment_by = "none" THEN {"all"} ELSE {"entry", "mid"}

MkPoint(m, n) ==
    LET margin == IF n = 1 THEN 0 ELSE 3
    IN [mean |-> m, ci_low |-> m - margin, ci_high |-> m + margin, n |-> n]

EstimateOf(seed, rows, segment, method, t, outcome) ==
    LET a == IF segment = "mid" THEN 3 ELSE IF segment = "entry" THEN 1 ELSE 0
        b == IF method = "dr" THEN 5 ELSE 0
        c == IF outcome = "net_value" THEN 7 ELSE 0
    IN MkPoint(((seed * 11 + rows * 3 + t * (a + 2) + b + c) % 5) * 4, rows)

\* generate_synthetic_data raises with fewer than two levels; the naive
\* estimator raises when a level has no row at all, which is certain when
\* there are fewer rows than levels
BuildFails(rows, treatment_levels) ==
    Len(treatment_levels) < 2 \/ rows < Len(treatment_levels)

\* lines 39-94, with combine_dose_responses of dr_estimator.py lines 225-239:
\* segmentation -> segment -> method -> str(level) -> outcome -> point
_build_segment_payload(rows, seed, treatment_levels) ==
    [segment_by \in DOMAIN SEGMENT_COLUMNS |->
        [segment \in SegmentsOf(segment_by) |->
            [method \in Methods |->
                [k \in {LevelKey(t) : t \in Range(treatment_levels)} |->
                    [outcome \in CombinedOutcomes |->
                        EstimateOf(seed, rows, segment, method, KeyLevel(k), outcome)]]]]]

\* lines 125-130
DoseResponsePayload(rows, seed, treatment_levels, artifact_version) ==
    [artifact_version |-> artifact_version,
     treatment_levels |-> treatment_levels,
     baseline |-> [name |-> "current_policy", discount_pct |-> PinnedBaselineLevel],
     segmentations |-> _build_segment_payload(rows, seed, treatment_levels)]

\* lines 132-135
BaselinesPayload == [name |-> "current_policy", discount_pct |-> PinnedBaselineLevel]


(***************************************************************************)
(* The artifacts recommend_policy is given.  Besides the tables that       *)
(* build_artifacts writes, a dose_response.json may come from any build of *)
(* the table format: with the recommender's own outcome names, with or     *)
(* without a baseline entry, with or without the dr slices.                *)
(***************************************************************************)
MeanValues == {4 * k : k \in 0..MaxMean}

LevelLists == {SortedSeq(S) : S \in {T \in SUBSET (0..MaxLevel) : Cardinality(T) >= 2}}

IndexOf(s, x) == CHOOSE i \in DOMAIN s : s[i] = x

\* the mean of one table position, derived from the curve mu of the artifact:
\* the dr curve is the naive one reversed, the "mid" segment's curve is
\* rotated by one level, and the outcomes differ from each other
TableMean(mu, levels, segment, method, t, outcome) ==
    LET k == Len(levels)
        i == IndexOf(levels, t)
        j == IF method = "dr" THEN k + 1 - i ELSE i
        h == IF segment = "mid" THEN (j % k) + 1 ELSE j
        base == mu[levels[h]]
    IN IF outcome = "task_success" THEN base
       ELSE IF outcome = "safe_value" THEN 4 * MaxMean - base + (IF segment = "all" THEN 0 ELSE 4 * (i % 2))
       ELSE IF outcome = "safety_incident" THEN base + 1
       ELSE 1000000 * t + base

BaselineShapes ==
    {<<"absent">>, <<"discount_pct">>} \cup {<<"policy_level", b>> : b \in 0..(MaxLevel + 1)}

TableShapes == {"full", "no_dr", "dr_partial", "none_only"}

GenericArtifact(levels, mu, baseline, shape) ==
    LET methods(segment) ==
            IF shape = "no_dr" \/ (shape = "dr_partial" /\ segment = "mid")
            THEN {"naive"} ELSE Methods
        segmentations ==
            [segment_by \in (IF shape = "none_only" THEN {"none"} ELSE DOMAIN SEGMENT_COLUMNS) |->
                [segment \in SegmentsOf(segment_by) |->
                    [method \in methods(segment) |->
                        [key \in {LevelKey(t) : t \in Range(levels)} |->
                            [outcome \in TrackedOutcomes |->
                                MkPoint(TableMean(mu, levels, segment, method, KeyLevel(key), outcome),
                                        1 + (KeyLevel(key) % 2))]]]]]
        base == [treatment_levels |-> levels, segmentations |-> segmentations]
    IN IF baseline[1] = "absent" THEN base
       ELSE IF baseline[1] = "discount_pct"
            THEN [treatment_levels |-> levels, segmentations |-> segmentations,
                  baseline |-> BaselinesPayload]
            ELSE [treatment_levels |-> levels, segmentations |-> segmentations,
                  baseline |-> [name |-> "current_policy", policy_level |-> baseline[2]]]

\* seeds and row counts of the builds of the model
Seeds == 0..1
RowCounts == {1, 6}

BuiltArtifacts ==
    {DoseResponsePayload(6, seed, levels, "v1") :
        seed \in Seeds, levels \in LevelLists \cup {DEFAULT_TREATMENT_LEVELS}}

\* the curve that the artifacts of a varied baseline or table shape carry
PlainCurve(levels) == [t \in Range(levels) |-> 4 * (t % (MaxMean + 1))]

ArtifactInputs ==
    UNION {
        {GenericArtifact(levels, mu, <<"policy_level", DefaultBaselineLevel>>, "full") :
            mu \in [Range(levels) -> MeanValues]}
        \cup
        {GenericArtifact(levels, PlainCurve(levels), b, "full") : b \in BaselineShapes}
        \cup
        {GenericArtifact(levels, PlainCurve(levels), <<"policy_level", DefaultBaselineLevel>>, shape) :
            shape \in TableShapes \ {"full"}}
        : levels \in LevelLists}
    \cup BuiltArtifacts

\* segment_by values of the calls: the artifact's segmentations and one no
\* artifact has
RequestSegmentations == {"none", "device_tier", "region"}

\* Python's None, where the other values are records
None == [none |-> TRUE]

(***************************************************************************)
(* train.py: digests and the manifest.                                     *)
(*                                                                         *)
(* A SHA-256 digest is the pair of a tag and the digested content: two     *)
(* digests are equal exactly when the canonical JSON texts (or the file    *)
(* bytes) are.                                                             *)
(***************************************************************************)
_sha256_json(payload) == <<"sha256", payload>>
_sha256_file(content) == <<"sha256", content>>

\* line 105: tuple(sorted(set(int(x) for x in treatment_levels)))
NormalizeLevels(treatment_levels) == SortedSeq(Range(treatment_levels))


\* lines 149-155
ArtifactHash(seed, rows, treatment_levels, dose_response_payload) ==
    _sha256_json([seed |-> seed, rows |-> rows, treatment_levels |-> treatment_levels,
                  dose_response |-> dose_response_payload])

ArtifactFiles ==
    {"demo.parquet", "propensity_model.joblib", "outcome_model.joblib",
     "dose_response.json", "policy_baselines.json", "manifest.json"}

\* lines 143-147 and 176: the files in the order build_artifacts writes them
WriteOrder ==
    <<"demo.parquet", "propensity_model.joblib", "outcome_model.joblib",
      "dose_response.json", "policy_baselines.json", "manifest.json">>

\* lines 157-174, from the files as they are on disk when they are hashed
Manifest(b, files, created_at_utc) ==
    [artifact_version |-> b.artifact_version,
     created_at_utc |-> created_at_utc,
     seed |-> b.seed,
     rows |-> b.rows,
     treatment_levels |-> b.treatment_levels,
     has_dr |-> TRUE,
     artifact_hash |-> ArtifactHash(b.seed, b.rows, b.treatment_levels,
                                    DoseResponsePayload(b.rows, b.seed, b.treatment_levels,
                                                        b.artifact_version)),
     file_hashes |-> [f \in ArtifactFiles \ {"manifest.json"} |-> _sha256_file(files[f])]]

\* the content of the file build b writes at position i of WriteOrder
FileContent(b, i, files, created_at_utc) ==
    LET name == WriteOrder[i]
    IN IF name = "demo.parquet"
       THEN [dataset |-> <<b.seed, b.rows, b.treatment_levels>>]
       ELSE IF name = "propensity_model.joblib"
       THEN [propensity |-> <<b.seed, b.rows, b.treatment_levels>>]
       ELSE IF name = "outcome_model.joblib"
       THEN [outcome_models |-> <<b.seed, b.rows, b.treatment_levels>>]
       ELSE IF name = "dose_response.json"
       THEN DoseResponsePayload(b.rows, b.seed, b.treatment_levels, b.artifact_version)
       ELSE IF name = "policy_baselines.json" THEN BaselinesPayload
       ELSE Manifest(b, files, created_at_utc)

NoFiles == [f \in ArtifactFiles |-> None]

RECURSIVE WriteAll(_, _, _, _)
WriteAll(b, i, files, created_at_utc) ==
    IF i > Len(WriteOrder) THEN files
    ELSE WriteAll(b, i + 1,
                  [files EXCEPT ![WriteOrder[i]] = FileContent(b, i, files, created_at_utc)],
                  created_at_utc)

\* the artifact directory a completed build leaves
PublishedArtifact(rows, seed, treatment_levels, artifact_version, created_at_utc) ==
    WriteAll([rows |-> rows, seed |-> seed, treatment_levels |-> treatment_levels,
              artifact_version |-> artifact_version],
             1, NoFiles, created_at_utc)

Dirs == {"dirA", "dirB"}
\* date.today().isoformat() and datetime.now(timezone.utc).isoformat()
Days == {"2026-01-01", "2026-01-02"}

(***************************************************************************)
(* State.                                                                  *)
(***************************************************************************)
VARIABLES
    manifest,        \* SpecPolicy: manifest.json of the artifact the caller read
    artifact,        \* SpecPolicy: its dose_response.json, passed to recommend_policy
    call,            \* the arguments of that call, None before it
    locals,          \* baseline_level as resolved by the call (lines 42-45), None if not reached
    outcome,         \* what the call returned or raised
    disk,            \* artifact directory -> [exists, files: file name -> content or None]
    build,           \* the run of build_artifacts: its arguments and its position
    nbuilds,         \* runs of build_artifacts started
    completed,       \* the manifests the completed runs returned, with their arguments
    artifact_cache,  \* ArtifactCache: [bundle, artifact_dir]
    getting,         \* the ArtifactCache.get that holds the lock, None if the lock is free
    got,             \* what the last ArtifactCache.get returned or raised
    ngets,           \* calls of ArtifactCache.get that have returned
    served,          \* directory -> the bundle first returned for it since the last clear()
    held,            \* the bundle first returned since the last clear() or change of directory
    response_cache,  \* ResponseCache._cache: cache key -> cached response
    request,         \* the last POST /api/v1/recommend body
    response,        \* the HTTP response to it
    core_calls,      \* the recommend_policy calls made while handling it, in order
    nrequests,       \* requests handled
    cached_for,      \* cache key -> the request and artifact hash its entry was computed for
    df,              \* the dataset an estimator is given: a sequence of rows
    est,             \* the estimator call made on it: function, arguments, steps and result
    threads          \* the recommend_policy call of each thread: arguments, position, locals

policyVars == <<manifest, artifact, call, locals, outcome>>
buildVars == <<disk, build, nbuilds, completed>>
cacheVars == <<artifact_cache, getting, got, ngets, served, held>>
serveVars == <<response_cache, request, response, core_calls, nrequests, cached_for>>
estVars == <<df, est>>
callerVars == <<threads>>

vars == <<manifest, artifact, call, locals, outcome, disk, build, nbuilds, completed,
          artifact_cache, getting, got, ngets, served, held,
          response_cache, request, response, core_calls, nrequests, cached_for,
          df, est, threads>>

\* runs of build_artifacts in one behaviour
MaxBuilds == 2
\* runs of build_artifacts while the serving process is up
MaxRebuilds == 1
\* calls of ArtifactCache.get in one behaviour
MaxGets == 3
\* requests to POST /api/v1/recommend in one behaviour
MaxRequests == 2

EmptyDir == [exists |-> FALSE, files |-> NoFiles]

PolicyIdle ==
    /\ manifest = None
    /\ artifact = None
    /\ call = None
    /\ locals = None
    /\ outcome = None

BuildIdle ==
    /\ disk = [d \in Dirs |-> EmptyDir]
    /\ build = [pc |-> "idle"]
    /\ nbuilds = 0
    /\ completed = {}

CacheIdle ==
    /\ artifact_cache = [bundle |-> None, artifact_dir |-> None]
    /\ getting = None
    /\ got = None
    /\ ngets = 0
    /\ served = [d \in Dirs |-> None]
    /\ held = None

ServeIdle ==
    /\ response_cache = <<>>
    /\ request = None
    /\ response = None
    /\ core_calls = <<>>
    /\ nrequests = 0
    /\ cached_for = <<>>

EstimateIdle ==
    /\ df = <<>>
    /\ est = None

\* threads of the serving process that call recommend_policy on one artifact
MaxCallers == 2
Callers == 1..MaxCallers

CallersIdle == threads = [c \in Callers |-> None]

(***************************************************************************)
(* SpecPolicy: recommend_policy called directly (as build_static_bundle    *)
(* does) on the table of an artifact.                                      *)
(***************************************************************************)
\* manifest.json as far as the recommendation path reads it; build_artifacts
\* writes has_dr True, an artifact of another origin may flag DR unavailable
ManifestsOf(dose_response) ==
    IF dose_response \in BuiltArtifacts
    THEN {[artifact_version |-> "v1", has_dr |-> TRUE]}
    ELSE {[artifact_version |-> "v1", has_dr |-> TRUE],
          [artifact_version |-> "v1", has_dr |-> FALSE]}

InitPolicy ==
    /\ artifact \in ArtifactInputs
    /\ manifest \in ManifestsOf(artifact)
    /\ call = None
    /\ locals = None
    /\ outcome = None
    /\ BuildIdle
    /\ CacheIdle
    /\ ServeIdle
    /\ EstimateIdle
    /\ CallersIdle

RecommendPolicyCall ==
    /\ call = None
    /\ \E objective \in Objectives, max_policy_level \in 0..(MaxLevel + 1),
          segment_by \in RequestSegmentations, method \in Methods :
        /\ call' = [objective |-> objective, max_policy_level |-> max_policy_level,
                    segment_by |-> segment_by, method |-> method]
        /\ outcome' = recommend_policy(artifact, objective, max_policy_level, segment_by, method)
        /\ locals' = IF CandidateTreatments(artifact.treatment_levels, max_policy_level) # <<>>
                     THEN [baseline_level |-> BaselineLevel(artifact)]
                     ELSE None
    /\ UNCHANGED <<manifest, artifact, buildVars, cacheVars, serveVars, estVars, callerVars>>

NextPolicy == RecommendPolicyCall

SpecPolicy == InitPolicy /\ [][NextPolicy]_vars

\* artifact_version=None, the default of the argument
NoVersion == "None"

(***************************************************************************)
(* build_artifacts (train.py lines 97-178), one run at a time.             *)
(***************************************************************************)
\* lines 104-135: mkdir, then data generation, validation, fitting and
\* estimation; nothing but the directory is touched before they are through
BuildComputeWritesDataset(artifact_dir, rows, seed, levels_arg, version_arg, today) ==
    LET treatment_levels == NormalizeLevels(levels_arg)
        artifact_version == IF version_arg = NoVersion THEN today ELSE version_arg
        b == [artifact_dir |-> artifact_dir, rows |-> rows, seed |-> seed,
              treatment_levels |-> treatment_levels, artifact_version |-> artifact_version,
              today |-> today, before |-> disk[artifact_dir].files]
    IN /\ disk' = [disk EXCEPT ![artifact_dir].exists = TRUE,
                               ![artifact_dir].files["demo.parquet"] =
                                   FileContent(b, 1, disk[artifact_dir].files, today)]
       /\ build' = IF BuildFails(rows, treatment_levels)
                   THEN [pc |-> "failed", artifact_dir |-> artifact_dir,
                         before |-> disk[artifact_dir].files]
                   ELSE [b EXCEPT !.pc = "writing", !.next = 2]

BuildCompute(artifact_dir, rows, seed, levels_arg, version_arg, today) ==
    LET treatment_levels == NormalizeLevels(levels_arg)
        artifact_version == IF version_arg = NoVersion THEN today ELSE version_arg
    IN /\ disk' = [disk EXCEPT ![artifact_dir].exists = TRUE]
       /\ build' = IF BuildFails(rows, treatment_levels)
                   THEN [pc |-> "failed", artifact_dir |-> artifact_dir,
                         before |-> disk[artifact_dir].files]
                   ELSE [pc |-> "writing", next |-> 1,
                         artifact_dir |-> artifact_dir, rows |-> rows, seed |-> seed,
                         treatment_levels |-> treatment_levels,
                         artifact_version |-> artifact_version,
                         today |-> today, before |-> disk[artifact_dir].files]

BuildStart(limit, rowCounts, seeds, levelArgs, versionArgs, days) ==
    /\ build.pc \in {"idle", "done", "failed"}
    /\ nbuilds < limit
    /\ \E artifact_dir \in Dirs, rows \in rowCounts, seed \in seeds,
          levels_arg \in levelArgs, version_arg \in versionArgs, today \in days :
          BuildCompute(artifact_dir, rows, seed, levels_arg, version_arg, today)
    /\ nbuilds' = nbuilds + 1
    /\ UNCHANGED <<completed, policyVars, cacheVars, serveVars, estVars, callerVars>>

\* lines 143-147 and 149-176: one file is written per step; the manifest is
\* computed from the files on disk and written last
BuildWriteFile ==
    /\ build.pc = "writing"
    /\ LET i == build.next
           d == build.artifact_dir
           content == FileContent(build, i, disk[d].files, build.today)
       IN /\ disk' = [disk EXCEPT ![d].files[WriteOrder[i]] = content]
          /\ IF i = Len(WriteOrder)
             THEN /\ build' = [build EXCEPT !.pc = "done"]
                  /\ completed' = completed \cup
                        {[artifact_dir |-> d, seed |-> build.seed, rows |-> build.rows,
                          treatment_levels |-> build.treatment_levels,
                          artifact_version |-> build.artifact_version,
                          today |-> build.today,
                          artifact_hash |-> content.artifact_hash]}
             ELSE /\ build' = [build EXCEPT !.next = i + 1]
                  /\ UNCHANGED completed
    /\ UNCHANGED <<nbuilds, policyVars, cacheVars, serveVars, estVars, callerVars>>

(***************************************************************************)
(* SpecBuild: runs of build_artifacts, one after the other.                *)
(***************************************************************************)
\* what a directory holds before the first run of the behaviour: nothing, or
\* the artifact an earlier run published
InitialDirs ==
    {EmptyDir,
     [exists |-> TRUE, files |-> PublishedArtifact(6, 0, <<0, 1>>, "v0", "2026-01-01")]}

LevelArgs == {<<0, 1>>, <<1, 0, 1>>, <<0>>}
VersionArgs == {NoVersion, "v1"}

InitBuild ==
    /\ PolicyIdle
    /\ CacheIdle
    /\ ServeIdle
    /\ EstimateIdle
    /\ CallersIdle
    /\ disk \in [Dirs -> InitialDirs]
    /\ build = [pc |-> "idle"]
    /\ nbuilds = 0
    /\ completed = {}

BuildStartAny == BuildStart(MaxBuilds, RowCounts, Seeds, LevelArgs, VersionArgs, Days)

NextBuild == BuildStartAny \/ BuildWriteFile

SpecBuild == InitBuild /\ [][NextBuild]_vars

\* C5: two runs of build_artifacts with the same seed, row count and level set
\* return the same artifact_hash, whatever the date, the artifact_version
\* argument and the target directory are.
C5_SameInputsSameHash ==
    \A a \in completed, b \in completed :
        (a.seed = b.seed /\ a.rows = b.rows /\ a.treatment_levels = b.treatment_levels)
            => a.artifact_hash = b.artifact_hash

\* what does hold: with the artifact_version equal too, the hash is the same
\* in another directory and on another day
SameInputsAndVersionSameHash ==
    \A a \in completed, b \in completed :
        (a.seed = b.seed /\ a.rows = b.rows /\ a.treatment_levels = b.treatment_levels
            /\ a.artifact_version = b.artifact_version)
            => a.artifact_hash = b.artifact_hash

\* C6: when build_artifacts fails during validation, fitting or estimation, no
\* file of the artifact directory has been created or modified: what was
\* published there before is intact.
C6_FailedBuildLeavesFilesAlone ==
    build.pc = "failed" => disk[build.artifact_dir].files = build.before

\* a run failed in a directory that holds a published artifact
C6_Witness ==
    /\ build.pc = "failed"
    /\ build.before["manifest.json"] # None
    /\ disk[build.artifact_dir].files["manifest.json"] # None

(***************************************************************************)
(* ArtifactCache (cache.py lines 18-60).  get holds the lock from its      *)
(* first line to its return; the three files are read one after the other, *)
(* and a run of build_artifacts in another process is not stopped by the   *)
(* lock.                                                                   *)
(***************************************************************************)
ReturnBundle(d, bundle, hit) ==
    /\ got' = [status |-> "ok", dir |-> d, bundle |-> bundle, hit |-> hit]
    /\ ngets' = ngets + 1
    /\ served' = IF served[d] = None THEN [served EXCEPT ![d] = bundle] ELSE served
    /\ held' = IF held = None \/ held.dir # d THEN [dir |-> d, bundle |-> bundle] ELSE held

\* lines 25-27: the cached bundle is returned when there is one for this directory
CacheHitNever(d) == FALSE

CacheHit(d) == artifact_cache.bundle # None /\ artifact_cache.artifact_dir = d

\* lines 25-38: the lock is taken; a hit returns at once, a missing manifest
\* or table raises, otherwise the manifest is read
GetBegin(d) ==
    /\ getting = None
    /\ ngets < MaxGets
    /\ IF CacheHit(d)
       THEN /\ ReturnBundle(d, artifact_cache.bundle, TRUE)
            /\ UNCHANGED <<artifact_cache, getting>>
       ELSE IF disk[d].files["manifest.json"] = None \/ disk[d].files["dose_response.json"] = None
       THEN /\ got' = [status |-> "FileNotFoundError", dir |-> d]
            /\ ngets' = ngets + 1
            /\ UNCHANGED <<artifact_cache, getting, served, held>>
       ELSE /\ getting' = [pc |-> "dose_response", dir |-> d,
                           manifest |-> disk[d].files["manifest.json"]]
            /\ UNCHANGED <<artifact_cache, got, ngets, served, held>>
    /\ UNCHANGED <<policyVars, buildVars, serveVars, estVars, callerVars>>

\* line 39
GetReadDoseResponse ==
    /\ getting # None
    /\ getting.pc = "dose_response"
    /\ getting' = [pc |-> "baselines", dir |-> getting.dir, manifest |-> getting.manifest,
                   dose_response |-> disk[getting.dir].files["dose_response.json"]]
    /\ UNCHANGED <<artifact_cache, got, ngets, served, held, policyVars, buildVars, serveVars, estVars, callerVars>>

\* lines 40-55: the baselines are read, the bundle is made and becomes the
\* cached one, the lock is released
GetFinish ==
    /\ getting # None
    /\ getting.pc = "baselines"
    /\ LET d == getting.dir
           on_disk == disk[d].files["policy_baselines.json"]
           bundle == [manifest |-> getting.manifest,
                      dose_response |-> getting.dose_response,
                      baselines |-> IF on_disk # None THEN on_disk ELSE BaselinesPayload,
                      has_dr |-> IF "has_dr" \in DOMAIN getting.manifest
                                 THEN getting.manifest.has_dr ELSE TRUE]
       IN /\ artifact_cache' = [bundle |-> bundle, artifact_dir |-> d]
          /\ ReturnBundle(d, bundle, FALSE)
    /\ getting' = None
    /\ UNCHANGED <<policyVars, buildVars, serveVars, estVars, callerVars>>

\* lines 57-60
Clear ==
    /\ getting = None
    /\ artifact_cache' = [bundle |-> None, artifact_dir |-> None]
    /\ served' = [d \in Dirs |-> None]
    /\ held' = None
    /\ UNCHANGED <<getting, got, ngets, policyVars, buildVars, serveVars, estVars, callerVars>>

(***************************************************************************)
(* Spec: the serving process loads artifacts through ArtifactCache while   *)
(* build_artifacts runs in another process.                                *)
(***************************************************************************)
Init ==
    /\ PolicyIdle
    /\ CacheIdle
    /\ ServeIdle
    /\ EstimateIdle
    /\ CallersIdle
    /\ disk \in [Dirs -> InitialDirs]
    /\ build = [pc |-> "idle"]
    /\ nbuilds = 0
    /\ completed = {}

Rebuild == BuildStart(MaxRebuilds, {6}, Seeds, {<<0, 1>>}, {"v1"}, {"2026-01-02"})

Get == \E d \in Dirs : GetBegin(d)

Next == Rebuild \/ BuildWriteFile \/ Get \/ GetReadDoseResponse \/ GetFinish \/ Clear

Spec == Init /\ [][Next]_vars

\* the manifest and the table of a bundle come from one completed build
FromOneBuild(bundle) ==
    bundle.manifest.artifact_hash =
        ArtifactHash(bundle.manifest.seed, bundle.manifest.rows,
                     bundle.manifest.treatment_levels, bundle.dose_response)

\* C7: a reader that loads the artifact with ArtifactCache.get while
\* build_artifacts writes a new one into the same directory never gets a mixed
\* artifact: the manifest and the table of the bundle are of one build.
C7_BundleFromOneBuild ==
    (got # None /\ got.status = "ok") => FromOneBuild(got.bundle)

Called == call # None
Succeeded == Called /\ outcome.status = "ok"
Levels == Range(artifact.treatment_levels)
Feasible == {t \in Levels : t <= call.max_policy_level}

\* the artifact key of the segment a result row is about
SegmentKeyOf(label) == IF Len(label) = 1 THEN "all" ELSE label[2]

\* the artifact's estimate for the call's method
RawPoint(segment, t, outcome_name) ==
    artifact.segmentations[call.segment_by][segment][call.method][LevelKey(t)][outcome_name]

RawMean(segment, t) == RawPoint(segment, t, call.objective).mean

\* C1: in every successful recommendation the level recommended for a segment
\* is a level of the artifact that is <= the cap, its objective mean is maximal
\* among the levels <= the cap, and it is the lowest level attaining the maximum.
C1_ArgmaxLowestFeasible ==
    Succeeded =>
        \A i \in DOMAIN outcome.segments :
            LET row == outcome.segments[i]
                seg == SegmentKeyOf(row.segment)
                rec == row.recommended_policy_level
            IN /\ rec \in Feasible
               /\ \A t \in Feasible : RawMean(seg, t) <= RawMean(seg, rec)
               /\ \A t \in Feasible : RawMean(seg, t) = RawMean(seg, rec) => rec <= t

\* a success where two feasible levels tie at the maximum and a level above
\* the cap has a strictly larger mean
C1_Witness ==
    /\ Succeeded
    /\ \E i \in DOMAIN outcome.segments :
          LET row == outcome.segments[i]
              seg == SegmentKeyOf(row.segment)
              rec == row.recommended_policy_level
          IN /\ \E t \in Feasible : t > rec /\ RawMean(seg, t) = RawMean(seg, rec)
             /\ \E t \in Levels \ Feasible : RawMean(seg, t) > RawMean(seg, rec)

\* C2: a call with a budget cap below the minimum level fails with the
\* no-feasible-level error and returns nothing, whatever the objective,
\* segmentation and method.
C2_CapBelowMinimumFails ==
    (Called /\ \A t \in Levels : call.max_policy_level < t)
        => outcome = Raise("ValueError", "NoFeasibleLevel")

\* the cap is below the minimum and the call also names a segmentation the
\* artifact does not have
C2_Witness ==
    /\ Called
    /\ \A t \in Levels : call.max_policy_level < t
    /\ call.segment_by \notin DOMAIN artifact.segmentations
    /\ call.method = "dr"
    /\ outcome = Raise("ValueError", "NoFeasibleLevel")

\* the objective mean a curve point carries
PointObjectiveMean(point) ==
    IF call.objective = "task_success" THEN point.successes_per_10k
    ELSE point.safe_value_per_10k

\* C3: a successful recommendation for segmentation none has exactly one
\* segment, the all segment; every segment's curve has exactly one point per
\* level of the artifact, levels above the cap included, each with
\* ci_low <= objective mean <= ci_high.
C3_OneSegmentFullCurve ==
    Succeeded =>
        /\ call.segment_by = "none" =>
              /\ Len(outcome.segments) = 1
              /\ outcome.segments[1].segment = make_segment_label("none", "all")
              /\ Len(outcome.dose_response) = 1
        /\ \A i \in DOMAIN outcome.dose_response :
              LET points == outcome.dose_response[i].points
              IN /\ Len(points) = Len(artifact.treatment_levels)
                 /\ \A j \in DOMAIN points :
                       /\ points[j].policy_level = artifact.treatment_levels[j]
                       /\ points[j].ci_low <= PointObjectiveMean(points[j])
                       /\ PointObjectiveMean(points[j]) <= points[j].ci_high

\* a success for segmentation none whose cap leaves a level out, and whose
\* curve has a point with a proper interval
C3_Witness ==
    /\ Succeeded
    /\ call.segment_by = "none"
    /\ Levels \ Feasible # {}
    /\ \E j \in DOMAIN outcome.dose_response[1].points :
          outcome.dose_response[1].points[j].ci_low < outcome.dose_response[1].points[j].ci_high

\* the baseline build_artifacts pinned, snapped to the nearest level if it is
\* off the level set
PinnedOrNearest ==
    IF PinnedBaselineLevel \in Levels THEN PinnedBaselineLevel
    ELSE NearestLevel(artifact.treatment_levels, PinnedBaselineLevel)

\* C4: the baseline level recommend_policy uses and reports is the level
\* build_artifacts pinned in the artifact when that level is in the level set,
\* and otherwise the level nearest to the pinned value.
C4_BaselineIsPinnedLevel ==
    (Called /\ locals # None /\ "baseline" \in DOMAIN artifact
        /\ artifact.baseline = BaselinesPayload)
        => /\ locals.baseline_level = PinnedOrNearest
           /\ outcome.status = "ok" => outcome.baseline.policy_level = PinnedOrNearest

\* the artifact has the requested segmentation, none of whose segments has
\* a dr slice
NoDrSlice ==
    /\ call.segment_by \in DOMAIN artifact.segmentations
    /\ \A segment \in DOMAIN artifact.segmentations[call.segment_by] :
          "dr" \notin DOMAIN artifact.segmentations[call.segment_by][segment]

FlaggedNoDr == "has_dr" \in DOMAIN manifest /\ ~manifest.has_dr

\* C10 as stated, for a call that passes the checks made before the method is
\* looked at: method dr on an artifact whose manifest flags DR unavailable
\* fails with the unsupported-method error in recommend_policy.
C10_FlaggedArtifactFailsInCore ==
    (Called /\ call.method = "dr" /\ FlaggedNoDr /\ Feasible # {}
        /\ call.segment_by \in DOMAIN artifact.segmentations)
        => outcome = Raise("ValueError", "UnsupportedMethod")

\* C10, what the core does instead: method dr, with a feasible cap and a segmentation the artifact
\* has, fails with the unsupported-method error in recommend_policy when the
\* table holds no dr slice for that segmentation, whatever the manifest flags;
\* and when every slice is there, the flag does not make the call fail.
C10_MissingSliceFailsInCore ==
    (Called /\ call.method = "dr" /\ Feasible # {}
        /\ call.segment_by \in DOMAIN artifact.segmentations)
        => /\ NoDrSlice => outcome = Raise("ValueError", "UnsupportedMethod")
           /\ (outcome.status = "error" /\ outcome.kind = "UnsupportedMethod")
                 => \E segment \in DOMAIN artifact.segmentations[call.segment_by] :
                       "dr" \notin DOMAIN artifact.segmentations[call.segment_by][segment]

\* a flagged artifact without dr slices, asked for dr, fails in the core
C10_Witness ==
    /\ Called
    /\ call.method = "dr"
    /\ FlaggedNoDr
    /\ NoDrSlice
    /\ Feasible # {}
    /\ outcome = Raise("ValueError", "UnsupportedMethod")


\* the segments of the call's segmentation in the order the loop visits them
CallOrder == _sorted_segments(call.segment_by, artifact.segmentations[call.segment_by])

\* the positions in that order of the segments that have no entry for the method
MethodMissingAt ==
    {i \in DOMAIN CallOrder :
        call.method \notin DOMAIN artifact.segmentations[call.segment_by][CallOrder[i]]}

\* every segment visited before position i has all the entries the loop reads
CompleteBefore(i) ==
    \A j \in 1..(i - 1) :
        LookupsSucceed(
            _as_int_keyed_map(artifact.segmentations[call.segment_by][CallOrder[j]][call.method]),
            artifact.treatment_levels, call.objective)

TableComplete(dose_response, outcomes) ==
    \A segment_by \in DOMAIN dose_response.segmentations :
        \A segment \in DOMAIN dose_response.segmentations[segment_by] :
            /\ DOMAIN dose_response.segmentations[segment_by][segment] = Methods
            /\ \A method \in Methods :
                  LET by_level == dose_response.segmentations[segment_by][segment][method]
                  IN /\ DOMAIN by_level =
                            {LevelKey(t) : t \in Range(dose_response.treatment_levels)}
                     /\ \A k \in DOMAIN by_level : outcomes \subseteq DOMAIN by_level[k]

\* C13: in an artifact written by build_artifacts every (segmentation,
\* segment) pair has a point for every level, for both methods and for every
\* outcome recommend_policy reads, so recommend_policy never hits a missing
\* entry on it.
C13_BuiltTableHasWhatIsRead ==
    artifact \in BuiltArtifacts
        => /\ TableComplete(artifact, TrackedOutcomes)
           /\ Called => ~(outcome.status = "error" /\ outcome.exc = "KeyError")

\* what the built table is complete for: the outcomes build_artifacts combines
BuiltTableHasCombinedOutcomes ==
    artifact \in BuiltArtifacts => TableComplete(artifact, CombinedOutcomes)

\* recommend_policy called on a built artifact with a level within the cap and
\* a segmentation of the artifact
C13_Witness ==
    /\ Called
    /\ artifact \in BuiltArtifacts
    /\ Feasible # {}
    /\ call.segment_by \in DOMAIN artifact.segmentations
    /\ outcome = Raise("KeyError", "KeyError")

\* the caps a call may carry
Caps == 0..(MaxLevel + 1)

\* the same call with another cap
WithCap(cap) ==
    recommend_policy(artifact, call.objective, cap, call.segment_by, call.method)

FeasibleUnder(cap) == {t \in Levels : t <= cap}

\* the level recommended for segment i and its objective mean
RecommendedLevel(result, i) == result.segments[i].recommended_policy_level

RecommendedMean(result, i) ==
    RawMean(SegmentKeyOf(result.segments[i].segment), RecommendedLevel(result, i))

\* C26: for a fixed artifact, objective, segmentation and method and two caps
\* c1 <= c2 that both have a feasible level, the objective mean at the level
\* recommended under c2 is at least the one at the level recommended under
\* c1, in every segment; two caps with the same feasible levels give the
\* same recommendation.
C26_MonotoneInCap ==
    Succeeded =>
        \A cap \in Caps \ {call.max_policy_level} :
            LET other == WithCap(cap)
            IN /\ call.max_policy_level <= cap
                    => /\ other.status = "ok"
                       /\ DOMAIN other.segments = DOMAIN outcome.segments
                       /\ \A i \in DOMAIN outcome.segments :
                             /\ other.segments[i].segment = outcome.segments[i].segment
                             /\ RecommendedMean(other, i) >= RecommendedMean(outcome, i)
               /\ FeasibleUnder(cap) = Feasible => other = outcome

\* a success whose cap leaves a level out, where a larger cap gives a
\* strictly larger objective mean in a segment and another cap gives the same
\* feasible levels
C26_Witness ==
    /\ Succeeded
    /\ \E cap \in Caps :
          /\ call.max_policy_level < cap
          /\ \E i \in DOMAIN outcome.segments :
                RecommendedMean(WithCap(cap), i) > RecommendedMean(outcome, i)
    /\ \E cap \in Caps :
          /\ cap # call.max_policy_level
          /\ FeasibleUnder(cap) = Feasible

(***************************************************************************)
(* SpecServe: POST /api/v1/recommend (routes.py lines 43-114) on a loaded  *)
(* artifact bundle, with the process-wide ResponseCache.                   *)
(***************************************************************************)
ALLOWED_POLICY_LEVELS == 0..4
SchemaSegmentations == {"none", "device_tier", "prompt_risk", "task_domain"}

\* RecommendRequest without its field validator (schemas.py lines 16-24) and
\* without the bounds of the Field (line 12)
ValidRequestAnyCap(payload) ==
    /\ payload.objective \in Objectives
    /\ payload.segment_by \in SchemaSegmentations
    /\ payload.method \in Methods

\* schemas.py RecommendRequest: the body FastAPI lets through to the handler
ValidRequest(payload) ==
    /\ payload.objective \in Objectives
    /\ payload.max_policy_level \in ALLOWED_POLICY_LEVELS
    /\ payload.segment_by \in SchemaSegmentations
    /\ payload.method \in Methods

\* cache.py line 46
HasDr(m) == IF "has_dr" \in DOMAIN m THEN m.has_dr ELSE TRUE

DrUnavailableWarning == "DR artifacts unavailable; falling back to naive policy"
DrSliceWarning == "DR policy unavailable for this slice; returning naive policy"

\* lines 101-104
MergeWarnings(cached_warnings, warnings) ==
    cached_warnings \o SelectSeq(warnings, LAMBDA w : w \notin Range(cached_warnings))

\* the entry with the requested method dr in the place of method_used
CachedResponseAsDr(m, method_used, recommendation, warnings) ==
    [artifact_version |-> IF "artifact_version" \in DOMAIN m THEN m.artifact_version ELSE "unknown",
     method_used |-> "dr",
     segments |-> recommendation.segments,
     dose_response |-> recommendation.dose_response,
     baseline |-> recommendation.baseline,
     warnings |-> warnings]

\* lines 91-98
CachedResponse(m, method_used, recommendation, warnings) ==
    [artifact_version |-> IF "artifact_version" \in DOMAIN m THEN m.artifact_version ELSE "unknown",
     method_used |-> method_used,
     segments |-> recommendation.segments,
     dose_response |-> recommendation.dose_response,
     baseline |-> recommendation.baseline,
     warnings |-> warnings]

\* lines 106-114
Ok200(cached, warnings) ==
    [status |-> 200,
     artifact_version |-> cached.artifact_version,
     method_used |-> cached.method_used,
     segments |-> cached.segments,
     dose_response |-> cached.dose_response,
     baseline |-> cached.baseline,
     warnings |-> MergeWarnings(cached.warnings, warnings)]

\* an exception that leaves the handler: an HTTPException carries its status,
\* anything else is answered 500 by the server
HttpError(status, exc, kind) == [status |-> status, exc |-> exc, kind |-> kind]

CoreCall(method, result) ==
    [method |-> method, error |-> IF result.status = "ok" THEN "ok" ELSE result.kind]


\* lines 76-89: the handler of the ValueError of the first core call
HandleValueError(m, dose_response, payload, method_used, warnings, first, cache, cache_key) ==
    IF payload.method = "dr"
    THEN LET second == recommend_policy(dose_response, payload.objective,
                                        payload.max_policy_level, payload.segment_by, "naive")
             warnings2 == Append(warnings, DrSliceWarning)
             calls == <<CoreCall(method_used, first), CoreCall("naive", second)>>
         IN IF second.status = "ok"
            THEN LET cached == CachedResponse(m, "naive", second, warnings2)
                 IN [response |-> Ok200(cached, warnings2),
                     cache |-> (cache_key :> cached) @@ cache,
                     calls |-> calls]
            ELSE [response |-> HttpError(500, second.exc, second.kind),
                  cache |-> cache,
                  calls |-> calls]
    ELSE [response |-> HttpError(422, "HTTPException", first.kind),
          cache |-> cache,
          calls |-> <<CoreCall(method_used, first)>>]

\* line 61: artifacts.manifest.get("artifact_hash", "unknown")
LoadedHash(m) == IF "artifact_hash" \in DOMAIN m THEN m.artifact_hash ELSE "unknown"

\* lines 51-52: the method the handler goes on with
MethodAtKey(m, payload) ==
    IF payload.method = "dr" /\ ~HasDr(m) THEN "naive" ELSE payload.method

CacheKeyNoHash(m, payload, method_used) ==
    [objective |-> payload.objective,
     max_discount_pct |-> payload.max_policy_level,
     segment_by |-> payload.segment_by,
     method |-> method_used]

\* lines 55-64
CacheKey(m, payload, method_used) ==
    [objective |-> payload.objective,
     max_discount_pct |-> payload.max_policy_level,
     segment_by |-> payload.segment_by,
     method |-> method_used,
     artifact_hash |-> LoadedHash(m)]

\* lines 45-114: the handler on the bundle (m, dose_response) and the cache
recommend(m, dose_response, payload, cache) ==
    LET requested_method == payload.method
        substituted == requested_method = "dr" /\ ~HasDr(m)
        method_used == MethodAtKey(m, payload)
        warnings == IF substituted THEN <<DrUnavailableWarning>> ELSE <<>>
        cache_key == CacheKey(m, payload, method_used)
    IN IF cache_key \in DOMAIN cache
       THEN [response |-> Ok200(cache[cache_key], warnings), cache |-> cache, calls |-> <<>>]
       ELSE LET first == recommend_policy(dose_response, payload.objective,
                                          payload.max_policy_level, payload.segment_by,
                                          method_used)
            IN IF first.status = "ok"
               THEN LET cached == CachedResponse(m, method_used, first, warnings)
                    IN [response |-> Ok200(cached, warnings),
                        cache |-> (cache_key :> cached) @@ cache,
                        calls |-> <<CoreCall(method_used, first)>>]
               ELSE IF first.exc = "ValueError"
                    THEN HandleValueError(m, dose_response, payload, method_used, warnings,
                                          first, cache, cache_key)
                    ELSE [response |-> HttpError(500, first.exc, first.kind),
                          cache |-> cache,
                          calls |-> <<CoreCall(method_used, first)>>]

\* the artifacts the serving process has loaded
ServeLevelLists == {<<0, 1>>, <<1, 2>>}

ServeArtifacts ==
    {GenericArtifact(levels, PlainCurve(levels), <<"policy_level", DefaultBaselineLevel>>, shape) :
        levels \in ServeLevelLists, shape \in TableShapes}
    \cup {DoseResponsePayload(6, 0, <<0, 1>>, "v1")}

RequestCaps == {0, 2}

\* bodies with one field outside what RecommendRequest allows: the objective of
\* test_schema_validation_rejects_invalid_fields, a cap inside the bounds of
\* the Field that is no allowed level, and a cap above the bounds
InvalidRequests ==
    {[objective |-> "revenue", max_policy_level |-> 2, segment_by |-> "none", method |-> "dr"],
     [objective |-> "task_success", max_policy_level |-> 5, segment_by |-> "none", method |-> "dr"],
     [objective |-> "safe_value", max_policy_level |-> 11, segment_by |-> "none", method |-> "naive"]}

Requests ==
    [objective : Objectives, max_policy_level : RequestCaps,
     segment_by : RequestSegmentations, method : Methods]
    \cup InvalidRequests

InitServe ==
    /\ artifact \in ServeArtifacts
    /\ manifest \in ManifestsOf(artifact)
    /\ call = None
    /\ locals = None
    /\ outcome = None
    /\ BuildIdle
    /\ CacheIdle
    /\ ServeIdle
    /\ EstimateIdle
    /\ CallersIdle

\* a body the request model rejects never reaches the handler
RejectRequest ==
    /\ nrequests < MaxRequests
    /\ \E payload \in Requests :
        /\ ~ValidRequest(payload)
        /\ request' = payload
        /\ response' = HttpError(422, "RequestValidationError", "RequestValidationError")
        /\ core_calls' = <<>>
    /\ nrequests' = nrequests + 1
    /\ UNCHANGED <<response_cache, cached_for, policyVars, buildVars, cacheVars, estVars, callerVars>>

RecommendFrom(requests) ==
    /\ nrequests < MaxRequests
    /\ \E payload \in requests :
        /\ ValidRequest(payload)
        /\ LET r == recommend(manifest, artifact, payload, response_cache)
           IN /\ request' = payload
              /\ response' = r.response
              /\ response_cache' = r.cache
              /\ core_calls' = r.calls
              /\ cached_for' =
                    IF DOMAIN r.cache = DOMAIN response_cache THEN cached_for
                    ELSE LET key == CHOOSE k \in DOMAIN r.cache \ DOMAIN response_cache : TRUE
                         IN (key :> [objective |-> payload.objective,
                                     max_policy_level |-> payload.max_policy_level,
                                     segment_by |-> payload.segment_by,
                                     method |-> MethodAtKey(manifest, payload),
                                     artifact_hash |-> LoadedHash(manifest)]) @@ cached_for
    /\ nrequests' = nrequests + 1
    /\ UNCHANGED <<policyVars, buildVars, cacheVars, estVars, callerVars>>

Recommend == RecommendFrom(Requests)

NextServe == Recommend \/ RejectRequest

SpecServe == InitServe /\ [][NextServe]_vars


(***************************************************************************)
(* SpecReload: the serving process answers requests while the artifact it  *)
(* has loaded is replaced (ArtifactCache.clear(), then the next request's  *)
(* _get_artifacts loads what is on disk); ResponseCache is never cleared.  *)
(***************************************************************************)
ReverseCurve(levels) == [t \in Range(levels) |-> 4 * ((MaxMean - t) % (MaxMean + 1))]

\* manifest.json of an artifact: the hash is the one of train.py lines 149-155
HashedManifest(dose_response, has_dr) ==
    [artifact_version |-> "v1", has_dr |-> has_dr,
     artifact_hash |-> ArtifactHash(0, 6, dose_response.treatment_levels, dose_response)]

\* the artifacts that are on disk over the life of the serving process
LoadableArtifacts ==
    {GenericArtifact(<<0, 1>>, mu, <<"policy_level", DefaultBaselineLevel>>, shape) :
        mu \in {PlainCurve(<<0, 1>>), ReverseCurve(<<0, 1>>)},
        shape \in {"full", "dr_partial"}}

InitReload ==
    /\ artifact \in LoadableArtifacts
    /\ manifest \in {HashedManifest(artifact, has_dr) : has_dr \in BOOLEAN}
    /\ call = None
    /\ locals = None
    /\ outcome = None
    /\ BuildIdle
    /\ CacheIdle
    /\ ServeIdle
    /\ EstimateIdle
    /\ CallersIdle

\* cache.py lines 57-60 and 24-55, through _get_artifacts (routes.py lines 16-21);
\* no request is in progress and the last exchange is over
ReloadArtifact ==
    /\ \E dose_response \in LoadableArtifacts \ {artifact} :
        /\ DOMAIN dose_response.segmentations.device_tier.mid
              = DOMAIN artifact.segmentations.device_tier.mid
        /\ artifact' = dose_response
        /\ manifest' = HashedManifest(dose_response, manifest.has_dr)
    /\ request' = None
    /\ response' = None
    /\ core_calls' = <<>>
    /\ UNCHANGED <<call, locals, outcome, buildVars, cacheVars,
                   response_cache, nrequests, cached_for, estVars, callerVars>>

\* the bodies sent while the artifact changes, all of them valid
ReloadRequests ==
    [objective : Objectives, max_policy_level : {1},
     segment_by : {"none", "device_tier"}, method : Methods]

RecommendReloaded == RecommendFrom(ReloadRequests)

NextReload == RecommendReloaded \/ ReloadArtifact

SpecReload == InitReload /\ [][NextReload]_vars

(***************************************************************************)
(* Claims on the serving layer (SpecServe).                                *)
(***************************************************************************)
Handled == request # None /\ ValidRequest(request)

FailedCoreCalls == {i \in DOMAIN core_calls : core_calls[i].error # "ok"}

\* the core errors that do not depend on the method
MethodIndependentErrors == {"NoFeasibleLevel", "UnsupportedSegmentation"}

\* the response to the same body with method naive
NaiveResponse ==
    recommend(manifest, artifact, [request EXCEPT !.method = "naive"], response_cache).response

\* C9, first part: a request answered 200 after a core call failed asked for
\* method dr, and the failure was the unsupported-method error.
C9_FallbackOnlyOnUnsupportedMethod ==
    (Handled /\ response.status = 200 /\ FailedCoreCalls # {})
        => /\ request.method = "dr"
           /\ \A i \in FailedCoreCalls : core_calls[i].error = "UnsupportedMethod"
           /\ response.method_used = "naive"

AnsweredFromCache == Handled /\ response.status = 200 /\ core_calls = <<>>

\* what the handler answers to the request on the loaded artifact with an
\* empty response cache
FreshResponse == recommend(manifest, artifact, request, <<>>).response

\* an entry of the response cache for the request's objective, cap,
\* segmentation and method that was computed on an artifact of another hash
StaleEntries ==
    {k \in DOMAIN cached_for :
        /\ cached_for[k].objective = request.objective
        /\ cached_for[k].max_policy_level = request.max_policy_level
        /\ cached_for[k].segment_by = request.segment_by
        /\ cached_for[k].method = MethodAtKey(manifest, request)
        /\ cached_for[k].artifact_hash # LoadedHash(manifest)}

OutsideAllowed(payload) ==
    \/ payload.objective \notin {"task_success", "safe_value"}
    \/ payload.segment_by \notin {"none", "device_tier", "prompt_risk", "task_domain"}
    \/ payload.max_policy_level \notin {0, 1, 2, 3, 4}

\* the step handles a request (every step of SpecServe does)
RequestHandled == nrequests' = nrequests + 1

FallbackWarnings == {DrUnavailableWarning, DrSliceWarning}

NaiveWarningOnlyFromFlaggedFallbackEntry ==
    (Handled /\ request.method = "naive" /\ response.status = 200)
        => /\ DrSliceWarning \notin Range(response.warnings)
           /\ DrUnavailableWarning \in Range(response.warnings)
                => /\ AnsweredFromCache
                   /\ FlaggedNoDr

ComputedFrom(method) ==
    recommend_policy(artifact, request.objective, request.max_policy_level,
                     request.segment_by, method)

MaxRows == 3

SummaryScale == 10

RECURSIVE SumSeq(_)
SumSeq(s) == IF s = <<>> THEN 0 ELSE Head(s) + SumSeq(Tail(s))

SumSquares(s) == SumSeq([i \in DOMAIN s |-> s[i] * s[i]])

RECURSIVE ISqrtBetween(_, _, _)
ISqrtBetween(x, lo, hi) ==
    IF lo = hi THEN lo
    ELSE LET mid == (lo + hi + 1) \div 2
         IN IF mid * mid <= x THEN ISqrtBetween(x, mid, hi) ELSE ISqrtBetween(x, lo, mid - 1)

\* the largest r with r * r <= x
ISqrt(x) == ISqrtBetween(x, 0, IF x < 46340 THEN x ELSE 46340)

\* lines 48-50: 1.96 * std(ddof=1) / sqrt(n)
Margin(values) ==
    LET n == Len(values)
        spread == n * SumSquares(values) - SumSeq(values) * SumSeq(values)
    IN (196 * ISqrt((SummaryScale * SummaryScale * spread) \div (n * n * (n - 1)))) \div 100

_summarizeSwapped(values) ==
    IF Len(values) = 0 THEN Raise("ValueError", "EmptySample")
    ELSE LET mean == (SummaryScale * SumSeq(values)) \div Len(values)
         IN IF Len(values) = 1
            THEN [mean |-> mean, ci_low |-> mean, ci_high |-> mean, n |-> 1]
            ELSE [mean |-> mean, ci_low |-> mean + Margin(values),
                  ci_high |-> mean - Margin(values), n |-> Len(values)]

_summarizeUnguarded(values) ==
    IF Len(values) = 0 THEN [mean |-> 0, ci_low |-> 0, ci_high |-> 0, n |-> 0]
    ELSE LET mean == (SummaryScale * SumSeq(values)) \div Len(values)
         IN IF Len(values) = 1
            THEN [mean |-> mean, ci_low |-> mean, ci_high |-> mean, n |-> 1]
            ELSE [mean |-> mean, ci_low |-> mean - Margin(values),
                  ci_high |-> mean + Margin(values), n |-> Len(values)]

\* lines 42-51
_summarize(values) ==
    IF Len(values) = 0 THEN Raise("ValueError", "EmptySample")
    ELSE LET mean == (SummaryScale * SumSeq(values)) \div Len(values)
         IN IF Len(values) = 1
            THEN [mean |-> mean, ci_low |-> mean, ci_high |-> mean, n |-> 1]
            ELSE [mean |-> mean, ci_low |-> mean - Margin(values),
                  ci_high |-> mean + Margin(values), n |-> Len(values)]

\* a null of a segment column
NullValue == "NaN"

\* the values of the outcome column
OutcomeValues == {0, 1, 3}

\* a row: its treatment (TREATMENT_COL), its outcome and its segment column
RowTypes == [policy_level : {0, 1}, y : OutcomeValues, device_tier : {"entry", "mid", NullValue}]

RowCode(r) ==
    100 * r.policy_level + 10 * r.y
        + (IF r.device_tier = "entry" THEN 0 ELSE IF r.device_tier = "mid" THEN 1 ELSE 2)

\* the datasets: the estimators do not depend on the order of the rows, so
\* one order of each collection of rows is kept
Datasets ==
    {d \in UNION {[1..n -> RowTypes] : n \in 0..MaxRows} :
        \A i \in 1..(Len(d) - 1) : RowCode(d[i]) <= RowCode(d[i + 1])}

\* values[mask]: the entries of the rows of the mask, in row order
Masked(values, mask) == 
    LET keep == SelectSeq([i \in DOMAIN values |-> i], LAMBDA i : i \in mask)
    IN [k \in DOMAIN keep |-> values[keep[k]]]

Column(d, name) == [i \in DOMAIN d |-> d[i][name]]

InitEstimate ==
    /\ df \in Datasets
    /\ est = None
    /\ PolicyIdle
    /\ BuildIdle
    /\ CacheIdle
    /\ ServeIdle
    /\ CallersIdle

\* _summarize on the outcomes of some rows of the dataset
SummarizeCall ==
    /\ est = None
    /\ \E mask \in SUBSET DOMAIN df :
        LET values == Masked(Column(df, "y"), mask)
        IN est' = [fn |-> "_summarize", values |-> values, result |-> _summarize(values)]
    /\ UNCHANGED <<df, policyVars, buildVars, cacheVars, serveVars, callerVars>>


\* A segment column holds strings, written as they are; an object column may
\* also hold a number, and the integer 1 is written IntOne to tell it from
\* the string "1".
IntOne == "int(1)"

\* astype(str) on one value (lines 161-162)
Str(value) == IF value = IntOne THEN "1" ELSE value

\* _segment_masks with the mask taken on the column as it is, not on its cast
_segment_masksUncast(d, segment_by) ==
    IF segment_by \notin DOMAIN SEGMENT_COLUMNS
    THEN Raise("ValueError", "UnsupportedSegmentation")
    ELSE IF segment_by = "none"
    THEN [status |-> "ok", masks |-> [segment \in {"all"} |-> DOMAIN d]]
    ELSE LET segment_col == SEGMENT_COLUMNS[segment_by]
             segment_values == Column(d, segment_col)
         IN IF NullValue \in Range(segment_values)
            THEN [status |-> "error", exc |-> "ValueError", kind |-> "NullSegmentValue",
                  column |-> segment_col]
            ELSE [status |-> "ok",
                  masks |-> [value \in {Str(v) : v \in Range(segment_values)} |->
                                {i \in DOMAIN d : segment_values[i] = value}]]

\* lines 149-163; the error for a null names the column
_segment_masks(d, segment_by) ==
    IF segment_by \notin DOMAIN SEGMENT_COLUMNS
    THEN Raise("ValueError", "UnsupportedSegmentation")
    ELSE IF segment_by = "none"
    THEN [status |-> "ok", masks |-> [segment \in {"all"} |-> DOMAIN d]]
    ELSE LET segment_col == SEGMENT_COLUMNS[segment_by]
             segment_values == Column(d, segment_col)
         IN IF NullValue \in Range(segment_values)
            THEN [status |-> "error", exc |-> "ValueError", kind |-> "NullSegmentValue",
                  column |-> segment_col]
            ELSE [status |-> "ok",
                  masks |-> [value \in {Str(v) : v \in Range(segment_values)} |->
                                {i \in DOMAIN d : Str(segment_values[i]) = value}]]

\* the fitted models the DR estimator is given.  A propensity model knows its
\* classes and gives every row a probability <<numerator, denominator>> per
\* class; an outcome model predicts from the row's features and a treatment.
PropensityModels ==
    {[kind |-> "uniform", classes |-> {0, 1}],
     [kind |-> "uniform", classes |-> {0, 1, 2}],
     [kind |-> "skewed", classes |-> {0, 1}]}

OutcomeModels == {"flat", "level", "tier"}

predict_proba(propensity_model, row, class) ==
    IF propensity_model.kind = "uniform" THEN <<1, Cardinality(propensity_model.classes)>>
    ELSE IF class = 0 THEN <<99, 100>> ELSE <<1, 100>>

\* lines 109-116: the prediction with the treatment column set to the level
_predict_mu_for_treatment(outcome_model, row, treatment) ==
    IF outcome_model = "flat" THEN 1
    ELSE IF outcome_model = "level" THEN (IF treatment = 0 THEN 0 ELSE 1)
    ELSE IF row.device_tier = "mid" THEN 3 ELSE treatment

\* line 139: np.clip(p, min_propensity, 1.0) with min_propensity 0.02
ClipPropensity(p) ==
    IF 50 * p[1] < p[2] THEN <<1, 50>> ELSE IF p[1] > p[2] THEN <<1, 1>> ELSE p

PseudoOutcomeNoIndicator(row, p_t, mu_t, treatment) ==
    mu_t + (p_t[2] * (row.y - mu_t)) \div p_t[1]

\* lines 140-142 for one row
PseudoOutcome(row, p_t, mu_t, treatment) ==
    LET is_treatment == IF row.policy_level = treatment THEN 1 ELSE 0
    IN mu_t + (is_treatment * p_t[2] * (row.y - mu_t)) \div p_t[1]

\* compute_dr_scores with the levels the propensity model has no class for
\* skipped (continue in the place of the raise of line 137)
compute_dr_scoresSkipping(d, propensity_model, outcome_model, treatment_levels) ==
    [status |-> "ok",
     scores |-> [treatment \in Range(treatment_levels) \cap propensity_model.classes |->
                    [i \in DOMAIN d |->
                        PseudoOutcome(
                            d[i],
                            ClipPropensity(predict_proba(propensity_model, d[i], treatment)),
                            _predict_mu_for_treatment(outcome_model, d[i], treatment),
                            treatment)]]]

\* lines 119-146
compute_dr_scores(d, propensity_model, outcome_model, treatment_levels) ==
    IF \E t \in Range(treatment_levels) : t \notin propensity_model.classes
    THEN Raise("ValueError", "NoPropensityClass")
    ELSE [status |-> "ok",
          scores |-> [treatment \in Range(treatment_levels) |->
                        [i \in DOMAIN d |->
                            PseudoOutcome(
                                d[i],
                                ClipPropensity(predict_proba(propensity_model, d[i], treatment)),
                                _predict_mu_for_treatment(outcome_model, d[i], treatment),
                                treatment)]]]

\* lines 182-189: the summaries of the scores of every segment
SummarizeScores(masks, scores) ==
    [segment \in DOMAIN masks |->
        [treatment \in DOMAIN scores |-> _summarize(Masked(scores[treatment], masks[segment]))]]

\* a summary raised inside the loops of an estimator
SummaryFailed(by_segment) ==
    \E segment \in DOMAIN by_segment : \E t \in DOMAIN by_segment[segment] :
        "status" \in DOMAIN by_segment[segment][t]

EstimateDrScoresFirst(d, propensity_model, outcome_model, segment_by, treatment_levels) ==
    LET dr_scores == compute_dr_scores(d, propensity_model, outcome_model, treatment_levels)
        masks == _segment_masks(d, segment_by)
    IN IF dr_scores.status = "error"
       THEN [result |-> dr_scores, steps |-> <<"compute_dr_scores">>]
       ELSE IF masks.status = "error"
       THEN [result |-> masks, steps |-> <<"compute_dr_scores", "_segment_masks">>]
       ELSE [result |-> [status |-> "ok",
                         response |-> SummarizeScores(masks.masks, dr_scores.scores)],
             steps |-> <<"compute_dr_scores", "_segment_masks", "_summarize">>]

\* lines 166-190, with the calls it makes in their order
estimate_dr_dose_response(d, propensity_model, outcome_model, segment_by, treatment_levels) ==
    LET masks == _segment_masks(d, segment_by)
        dr_scores == compute_dr_scores(d, propensity_model, outcome_model, treatment_levels)
    IN IF masks.status = "error"
       THEN [result |-> masks, steps |-> <<"_segment_masks">>]
       ELSE IF dr_scores.status = "error"
       THEN [result |-> dr_scores, steps |-> <<"_segment_masks", "compute_dr_scores">>]
       ELSE LET by_segment == SummarizeScores(masks.masks, dr_scores.scores)
            IN [result |-> IF SummaryFailed(by_segment)
                           THEN Raise("ValueError", "EmptySample")
                           ELSE [status |-> "ok", response |-> by_segment],
                steps |-> <<"_segment_masks", "compute_dr_scores", "_summarize">>]

\* lines 202-205: the outcomes of the rows of the dataset that got the level
GlobalByTreatment(d, treatment) ==
    Masked(Column(d, "y"), {i \in DOMAIN d : d[i].policy_level = treatment})

\* lines 212-213: the values the naive estimator summarizes for a segment
NaiveValues(d, mask, treatment) ==
    LET observed == Masked(Column(d, "y"), {i \in mask : d[i].policy_level = treatment})
    IN IF Len(observed) > 0 THEN observed ELSE GlobalByTreatment(d, treatment)

\* lines 193-222
estimate_naive_dose_response(d, segment_by, treatment_levels) ==
    LET masks == _segment_masks(d, segment_by)
        all_treatments == SortedSeq(Range(treatment_levels))
    IN IF masks.status = "error" THEN masks
       ELSE IF \E segment \in DOMAIN masks.masks : \E t \in Range(all_treatments) :
                  Len(NaiveValues(d, masks.masks[segment], t)) = 0
       THEN Raise("ValueError", "NoObservations")
       ELSE [status |-> "ok",
             response |-> [segment \in DOMAIN masks.masks |->
                             [t \in Range(all_treatments) |->
                                 _summarize(NaiveValues(d, masks.masks[segment], t))]]]

EstimatorLevelArgs == {<<0, 1>>, <<0, 1, 2>>}

ComputeDrScoresCall ==
    /\ est = None
    /\ \E propensity_model \in PropensityModels, outcome_model \in OutcomeModels,
          treatment_levels \in EstimatorLevelArgs :
        est' = [fn |-> "compute_dr_scores",
                propensity_model |-> propensity_model, outcome_model |-> outcome_model,
                treatment_levels |-> treatment_levels,
                result |-> compute_dr_scores(df, propensity_model, outcome_model,
                                             treatment_levels)]
    /\ UNCHANGED <<df, policyVars, buildVars, cacheVars, serveVars, callerVars>>

EstimateDrCall ==
    /\ est = None
    /\ \E propensity_model \in PropensityModels, outcome_model \in {"level", "tier"},
          segment_by \in RequestSegmentations, treatment_levels \in EstimatorLevelArgs :
        LET r == estimate_dr_dose_response(df, propensity_model, outcome_model,
                                           segment_by, treatment_levels)
        IN est' = [fn |-> "estimate_dr_dose_response",
                   propensity_model |-> propensity_model, outcome_model |-> outcome_model,
                   segment_by |-> segment_by, treatment_levels |-> treatment_levels,
                   result |-> r.result, steps |-> r.steps]
    /\ UNCHANGED <<df, policyVars, buildVars, cacheVars, serveVars, callerVars>>

EstimateNaiveCall ==
    /\ est = None
    /\ \E segment_by \in RequestSegmentations, treatment_levels \in EstimatorLevelArgs :
        est' = [fn |-> "estimate_naive_dose_response",
                segment_by |-> segment_by, treatment_levels |-> treatment_levels,
                result |-> estimate_naive_dose_response(df, segment_by, treatment_levels)]
    /\ UNCHANGED <<df, policyVars, buildVars, cacheVars, serveVars, callerVars>>

NextEstimate == SummarizeCall \/ ComputeDrScoresCall \/ EstimateDrCall \/ EstimateNaiveCall

SpecEstimate == InitEstimate /\ [][NextEstimate]_vars


(***************************************************************************)
(* SpecPartition: _segment_masks called on datasets whose segment column   *)
(* holds strings, a number and nulls.                                      *)
(***************************************************************************)
TierValues == {"entry", "mid", "1", IntOne, NullValue}

PartitionDatasets ==
    UNION {[1..n -> [policy_level : {0}, y : {0}, device_tier : TierValues]] : n \in 0..MaxRows}

InitPartition ==
    /\ df \in PartitionDatasets
    /\ est = None
    /\ PolicyIdle
    /\ BuildIdle
    /\ CacheIdle
    /\ ServeIdle
    /\ CallersIdle

SegmentMasksCall ==
    /\ est = None
    /\ \E segment_by \in RequestSegmentations :
        est' = [fn |-> "_segment_masks", segment_by |-> segment_by,
                result |-> _segment_masks(df, segment_by)]
    /\ UNCHANGED <<df, policyVars, buildVars, cacheVars, serveVars, callerVars>>

NextPartition == SegmentMasksCall

SpecPartition == InitPartition /\ [][NextPartition]_vars

\* the partitioner was called
MasksCalled == est # None /\ est.fn = "_segment_masks"

\* the partitions that hold row i
PartitionsOf(i) == {k \in DOMAIN est.result.masks : i \in est.result.masks[k]}

\* C21: for a named segmentation over a dataset without a null segment
\* value, every row is in exactly one of the returned partitions, the one
\* keyed by the string cast of the row's segment value, and no partition is
\* empty; for the segmentation "none" there is the one partition "all", and
\* it holds every row.
C21_PartitionsExhaustiveDisjoint ==
    /\ (MasksCalled /\ est.segment_by = "device_tier"
          /\ \A i \in DOMAIN df : df[i].device_tier # NullValue)
        => /\ est.result.status = "ok"
           /\ \A i \in DOMAIN df :
                PartitionsOf(i) = {IF df[i].device_tier = IntOne THEN "1" ELSE df[i].device_tier}
           /\ \A k \in DOMAIN est.result.masks : est.result.masks[k] # {}
    /\ (MasksCalled /\ est.segment_by = "none")
        => /\ est.result.status = "ok"
           /\ DOMAIN est.result.masks = {"all"}
           /\ est.result.masks["all"] = DOMAIN df

\* a dataset where the integer 1 and the string "1" share a partition next to
\* another one was partitioned
C21_Witness ==
    /\ MasksCalled
    /\ est.segment_by = "device_tier"
    /\ est.result.status = "ok"
    /\ \E i, j, k \in DOMAIN df :
        /\ df[i].device_tier = IntOne
        /\ df[j].device_tier = "1"
        /\ df[k].device_tier = "entry"
        /\ PartitionsOf(i) = PartitionsOf(j)
        /\ PartitionsOf(k) # PartitionsOf(i)


(***************************************************************************)
(* SpecCombine: combine_dose_responses (dr_estimator.py lines 225-239)     *)
(* called on two tables, method -> segment -> level -> summary, one for    *)
(* each outcome.                                                           *)
(***************************************************************************)
\* the (method, segment, level) combinations a table may carry
Combinations == Methods \X {"entry", "mid"} \X {0, 1}

\* the summary an input table holds at a level
InputSummary(outcome_col, t) == IF outcome_col = "bookings" THEN MkPoint(t + 1, 2) ELSE MkPoint(t + 3, 1)

\* the table of one outcome_col that carries the combinations K
InputTable(K, outcome_col) ==
    [method \in {k[1] : k \in K} |->
        [segment \in {k[2] : k \in {c \in K : c[1] = method}} |->
            [t \in {k[3] : k \in {c \in K : c[1] = method /\ c[2] = segment}} |->
                InputSummary(outcome_col, t)]]]

\* the combinations a table carries
CombinationsOf(table) ==
    UNION {UNION {{<<method, segment, t>> : t \in DOMAIN table[method][segment]} :
                    segment \in DOMAIN table[method]} :
             method \in DOMAIN table}

\* the combiner with the two outcomes' summaries under each other's key
combine_dose_responsesSwapped(bookings_by_method, net_value_by_method) ==
    IF ~(CombinationsOf(bookings_by_method) \subseteq CombinationsOf(net_value_by_method))
    THEN Raise("KeyError", "KeyError")
    ELSE [status |-> "ok",
          response |->
            [method \in DOMAIN bookings_by_method |->
                [segment_value \in DOMAIN bookings_by_method[method] |->
                    [treatment \in DOMAIN bookings_by_method[method][segment_value] |->
                        [bookings |-> net_value_by_method[method][segment_value][treatment],
                         net_value |-> bookings_by_method[method][segment_value][treatment]]]]]]

\* lines 225-239: the loops run over the first table; the subscripts of line
\* 237 raise KeyError where the second table lacks the combination
combine_dose_responses(bookings_by_method, net_value_by_method) ==
    IF ~(CombinationsOf(bookings_by_method) \subseteq CombinationsOf(net_value_by_method))
    THEN Raise("KeyError", "KeyError")
    ELSE [status |-> "ok",
          response |->
            [method \in DOMAIN bookings_by_method |->
                [segment_value \in DOMAIN bookings_by_method[method] |->
                    [treatment \in DOMAIN bookings_by_method[method][segment_value] |->
                        [bookings |-> bookings_by_method[method][segment_value][treatment],
                         net_value |-> net_value_by_method[method][segment_value][treatment]]]]]]

InitCombine ==
    /\ PolicyIdle
    /\ BuildIdle
    /\ CacheIdle
    /\ ServeIdle
    /\ EstimateIdle
    /\ CallersIdle

CombineCall ==
    /\ est = None
    /\ \E Kb \in SUBSET Combinations, Kn \in SUBSET Combinations :
        LET bookings_by_method == InputTable(Kb, "bookings")
            net_value_by_method == InputTable(Kn, "net_value")
        IN est' = [fn |-> "combine_dose_responses",
                   bookings_by_method |-> bookings_by_method,
                   net_value_by_method |-> net_value_by_method,
                   result |-> combine_dose_responses(bookings_by_method, net_value_by_method)]
    /\ UNCHANGED <<df, policyVars, buildVars, cacheVars, serveVars, callerVars>>

NextCombine == CombineCall

SpecCombine == InitCombine /\ [][NextCombine]_vars

Combined == est # None /\ est.fn = "combine_dose_responses"

\* the combined table holds the input's summary of the outcome at every
\* combination the input carries
CarriedOver(table, outcome_col) ==
    \A k \in CombinationsOf(table) :
        /\ k \in CombinationsOf(est.result.response)
        /\ outcome_col \in DOMAIN est.result.response[k[1]][k[2]][k[3]]
        /\ est.result.response[k[1]][k[2]][k[3]][outcome_col] = table[k[1]][k[2]][k[3]]

\* C22: the combiner returns a table in which every (method, segment, level,
\* outcome) combination of either input appears under the same keys with the
\* input's summary unchanged.
C22_CombinerComplete ==
    Combined => /\ est.result.status = "ok"
                /\ CarriedOver(est.bookings_by_method, "bookings")
                /\ CarriedOver(est.net_value_by_method, "net_value")

\* what the combiner does: it fails exactly when the first table carries a
\* combination the second lacks, and otherwise returns the combinations of
\* the first table, each with both inputs' summaries unchanged
CombinerFollowsFirstInput ==
    Combined =>
        IF CombinationsOf(est.bookings_by_method) \subseteq CombinationsOf(est.net_value_by_method)
        THEN /\ est.result.status = "ok"
             /\ CombinationsOf(est.result.response) = CombinationsOf(est.bookings_by_method)
             /\ CarriedOver(est.bookings_by_method, "bookings")
             /\ \A k \in CombinationsOf(est.bookings_by_method) :
                    est.result.response[k[1]][k[2]][k[3]]["net_value"]
                        = est.net_value_by_method[k[1]][k[2]][k[3]]
        ELSE est.result = Raise("KeyError", "KeyError")

\* the combiner returned a table that lacks a combination the second input
\* carries
C22_Witness ==
    /\ Combined
    /\ est.result.status = "ok"
    /\ CombinationsOf(est.bookings_by_method) # {}
    /\ \E k \in CombinationsOf(est.net_value_by_method) :
            k \notin CombinationsOf(est.result.response)


(***************************************************************************)
(* Claims on the estimators (SpecEstimate).                                *)
(***************************************************************************)
Summarized == est # None /\ est.fn = "_summarize"

IsPoint(r) == "status" \notin DOMAIN r

\* C14: the point _summarize returns for a non-empty vector has
\* ci_low <= mean <= ci_high and n equal to the length of the vector; for a
\* vector of one element ci_low = mean = ci_high.
C14_SummaryBracketsMean ==
    (Summarized /\ est.values # <<>>)
        => /\ IsPoint(est.result)
           /\ est.result.ci_low <= est.result.mean
           /\ est.result.mean <= est.result.ci_high
           /\ est.result.n = Len(est.values)
           /\ Len(est.values) = 1
                => (est.result.ci_low = est.result.mean /\ est.result.ci_high = est.result.mean)

\* the summary of a vector of several values that are not all equal: the
\* interval is wider than a point
C14_Witness ==
    /\ Summarized
    /\ Len(est.values) > 1
    /\ IsPoint(est.result)
    /\ est.result.ci_low < est.result.mean

\* the points of the table an estimator returned
PointsOf(r) ==
    UNION {{r.response[segment][t] : t \in DOMAIN r.response[segment]} :
              segment \in DOMAIN r.response}

EstimatorReturned ==
    /\ est # None
    /\ est.fn \in {"estimate_dr_dose_response", "estimate_naive_dose_response"}
    /\ est.result.status = "ok"

\* C15: _summarize of an empty vector raises the empty-sample error and makes
\* no point; no table an estimator returns holds a point with n = 0.
C15_EmptyVectorFails ==
    /\ (Summarized /\ est.values = <<>>) => est.result = Raise("ValueError", "EmptySample")
    /\ EstimatorReturned
        => \A point \in PointsOf(est.result) : IsPoint(point) /\ point.n >= 1

\* _summarize was called on an empty vector
C15_Witness ==
    /\ Summarized
    /\ est.values = <<>>
    /\ ~IsPoint(est.result)

\* the outcome model predicts the observed outcome of every row at the level
\* the row got
OracleOutcomeModel ==
    \A i \in DOMAIN df :
        df[i].y = _predict_mu_for_treatment(est.outcome_model, df[i], df[i].policy_level)

\* C16: with a propensity model that is uniform over the levels and an outcome
\* model that predicts every row's observed outcome at the row's own level,
\* the DR pseudo-outcome of every row for every level t is the outcome model's
\* prediction at t.
C16_DrReducesToOutcomeModel ==
    (est # None /\ est.fn = "compute_dr_scores" /\ est.propensity_model.kind = "uniform"
        /\ Range(est.treatment_levels) \subseteq est.propensity_model.classes
        /\ OracleOutcomeModel)
        => /\ est.result.status = "ok"
           /\ \A t \in Range(est.treatment_levels) : \A i \in DOMAIN df :
                 est.result.scores[t][i] = _predict_mu_for_treatment(est.outcome_model, df[i], t)

\* such a call on rows of both levels whose predictions differ between the levels
C16_Witness ==
    /\ est # None
    /\ est.fn = "compute_dr_scores"
    /\ est.propensity_model.kind = "uniform"
    /\ OracleOutcomeModel
    /\ est.result.status = "ok"
    /\ \E i \in DOMAIN df, j \in DOMAIN df :
          /\ df[i].policy_level # df[j].policy_level
          /\ est.result.scores[0][i] # est.result.scores[1][i]

\* the call names a segmentation with a column, and the column holds a null
NullInSegmentColumn ==
    /\ est.segment_by \in DOMAIN SEGMENT_COLUMNS
    /\ est.segment_by # "none"
    /\ \E i \in DOMAIN df : df[i][SEGMENT_COLUMNS[est.segment_by]] = NullValue

\* C17: an estimator called for a named segmentation whose column holds a null
\* fails with the null-segment-value error naming the column; the DR estimator
\* has then made no call but the one that partitions the rows.
C17_NullSegmentValueFailsFirst ==
    (est # None
        /\ est.fn \in {"estimate_dr_dose_response", "estimate_naive_dose_response"}
        /\ NullInSegmentColumn)
        => /\ est.result = [status |-> "error", exc |-> "ValueError",
                            kind |-> "NullSegmentValue",
                            column |-> SEGMENT_COLUMNS[est.segment_by]]
           /\ est.fn = "estimate_dr_dose_response" => est.steps = <<"_segment_masks">>

\* the DR estimator met a null where the models could have scored every level
C17_Witness ==
    /\ est # None
    /\ est.fn = "estimate_dr_dose_response"
    /\ NullInSegmentColumn
    /\ Range(est.treatment_levels) \subseteq est.propensity_model.classes
    /\ est.result.status = "error"

NaiveCalled == est # None /\ est.fn = "estimate_naive_dose_response"

\* the call's segmentation has a column without nulls, or is "none"
Partitioned == est.segment_by \in DOMAIN SEGMENT_COLUMNS /\ ~NullInSegmentColumn

\* the segments of the dataset under the call's segmentation
SegmentsPresent ==
    IF est.segment_by = "none" THEN {"all"}
    ELSE {df[i][SEGMENT_COLUMNS[est.segment_by]] : i \in DOMAIN df}

RowsOf(segment) ==
    IF est.segment_by = "none" THEN DOMAIN df
    ELSE {i \in DOMAIN df : df[i][SEGMENT_COLUMNS[est.segment_by]] = segment}

RowsAt(t) == {i \in DOMAIN df : df[i].policy_level = t}

LevelWithoutUnit == \E t \in Range(est.treatment_levels) : RowsAt(t) = {}

\* what the naive estimator has to summarize for (segment, t)
NaiveSample(segment, t) ==
    IF RowsOf(segment) \cap RowsAt(t) # {}
    THEN Masked(Column(df, "y"), RowsOf(segment) \cap RowsAt(t))
    ELSE Masked(Column(df, "y"), RowsAt(t))

\* C18, first part: the table the naive estimator returns holds, for every
\* segment and level, the summary of the segment's outcomes at the level, or
\* of the population's when the segment has no unit at the level.
NaiveSummarizesSegmentOrPopulation ==
    (NaiveCalled /\ est.result.status = "ok")
        => /\ DOMAIN est.result.response = SegmentsPresent
           /\ \A segment \in SegmentsPresent :
                 /\ DOMAIN est.result.response[segment] = Range(est.treatment_levels)
                 /\ \A t \in Range(est.treatment_levels) :
                       est.result.response[segment][t] = _summarize(NaiveSample(segment, t))

\* C18: where the rows can be partitioned, the naive estimator summarizes the
\* segment's outcomes at each level or else the population's, and it fails
\* with the no-observations error if and only if some requested level has no
\* unit in the whole population.
C18_NaiveFailsIffLevelWithoutUnit ==
    /\ NaiveSummarizesSegmentOrPopulation
    /\ (NaiveCalled /\ Partitioned)
        => (est.result = Raise("ValueError", "NoObservations") <=> LevelWithoutUnit)

\* what holds of the failure: it happens if and only if some requested level
\* has no unit in the whole population and the dataset has a segment at all
NaiveFailsIffLevelWithoutUnitAndSegment ==
    (NaiveCalled /\ Partitioned)
        => (est.result = Raise("ValueError", "NoObservations")
               <=> (LevelWithoutUnit /\ SegmentsPresent # {}))

\* the naive estimator returned for a dataset without rows
C18_Witness ==
    /\ NaiveCalled
    /\ Partitioned
    /\ df = <<>>
    /\ est.result.status = "ok"


\* compute_dr_scores was called
ScoresCalled == est # None /\ est.fn = "compute_dr_scores"

\* a requested level that is no class of the propensity model
UnknownLevels == {t \in Range(est.treatment_levels) : t \notin est.propensity_model.classes}

\* C23: when a requested level is absent from the classes the propensity
\* model was fitted on, compute_dr_scores raises the unknown-class error and
\* returns no scores, none for the requested levels that are classes either.
C23_UnknownClassFailsWholeCall ==
    (ScoresCalled /\ UnknownLevels # {})
        => /\ est.result = Raise("ValueError", "NoPropensityClass")
           /\ "scores" \notin DOMAIN est.result

\* called on rows with levels of which some are classes and one is not
C23_Witness ==
    /\ ScoresCalled
    /\ df # <<>>
    /\ UnknownLevels # {}
    /\ Range(est.treatment_levels) \ UnknownLevels # {}
    /\ est.result.status = "error"


(***************************************************************************)
(* SpecConcurrent: threads of one process call recommend_policy on the     *)
(* dose-response table the process holds, with no lock; a thread may be    *)
(* preempted between any two statements, here between the prologue (lines  *)
(* 35-51), each iteration of the loop over the segments (lines 56-123) and *)
(* the return (lines 125-132).  A thread's names (treatment_levels,        *)
(* candidate_treatments, baseline_level, segments, chart_payload) are its  *)
(* own; dose_response and everything reached through it is shared.         *)
(***************************************************************************)
ConcurrentArtifacts ==
    {GenericArtifact(<<0, 1>>, PlainCurve(<<0, 1>>), <<"policy_level", DefaultBaselineLevel>>, shape) :
        shape \in {"full", "dr_partial", "none_only"}}
    \cup {GenericArtifact(<<2>>, PlainCurve(<<2>>), <<"absent">>, "full")}

\* the calls differ in what they read of the table: the segmentation and the
\* method
ConcurrentCalls ==
    [objective : {"task_success"}, max_policy_level : {1},
     segment_by : {"none", "device_tier"}, method : Methods]

InitConcurrent ==
    /\ artifact \in ConcurrentArtifacts
    /\ manifest = [artifact_version |-> "v1", has_dr |-> TRUE]
    /\ call = None
    /\ locals = None
    /\ outcome = None
    /\ BuildIdle
    /\ CacheIdle
    /\ ServeIdle
    /\ EstimateIdle
    /\ CallersIdle

Running(c) == threads[c] # None /\ threads[c].pc # "done"

\* some other thread is inside recommend_policy
Overlaps(c) == \E o \in Callers \ {c} : Running(o)

\* the call is made: the arguments are bound (lines 28-34); the threads are
\* alike, so they are numbered in the order of their calls
CallStart(c) ==
    /\ threads[c] = None
    /\ \A o \in Callers : o < c => threads[o] # None
    /\ \E args \in ConcurrentCalls :
        threads' = [threads EXCEPT ![c] =
            [call |-> args, seen |-> artifact, pc |-> "prologue", overlapped |-> Overlaps(c),
             treatment_levels |-> <<>>, candidate_treatments |-> <<>>,
             baseline_level |-> None, baseline_name |-> None, order |-> <<>>,
             segments |-> <<>>, chart_payload |-> <<>>, result |-> None]]
    /\ UNCHANGED <<policyVars, buildVars, cacheVars, serveVars, estVars>>

\* lines 35-56, up to the list the loop runs over
Prologue(c) ==
    /\ threads[c] # None
    /\ threads[c].pc = "prologue"
    /\ LET t == threads[c]
           treatment_levels == artifact.treatment_levels
           candidate_treatments == CandidateTreatments(treatment_levels, t.call.max_policy_level)
           baseline_info == BaselineInfo(artifact)
           segmentations == IF "segmentations" \in DOMAIN artifact
                            THEN artifact.segmentations ELSE <<>>
           raised(r) == [t EXCEPT !.pc = "done", !.result = r,
                                  !.overlapped = @ \/ Overlaps(c)]
       IN threads' = [threads EXCEPT ![c] =
            IF candidate_treatments = <<>> THEN raised(Raise("ValueError", "NoFeasibleLevel"))
            ELSE IF t.call.segment_by \notin DOMAIN segmentations
                 THEN raised(Raise("ValueError", "UnsupportedSegmentation"))
            ELSE IF t.call.segment_by = "none" /\ "all" \notin DOMAIN segmentations[t.call.segment_by]
                 THEN raised(Raise("KeyError", "KeyError"))
            ELSE [t EXCEPT !.pc = "loop",
                           !.overlapped = @ \/ Overlaps(c),
                           !.treatment_levels = treatment_levels,
                           !.candidate_treatments = candidate_treatments,
                           !.baseline_level = BaselineLevel(artifact),
                           !.baseline_name = IF "name" \in DOMAIN baseline_info
                                             THEN baseline_info.name ELSE "current_policy",
                           !.order = _sorted_segments(t.call.segment_by,
                                                      segmentations[t.call.segment_by])]]
    /\ UNCHANGED <<policyVars, buildVars, cacheVars, serveVars, estVars>>

\* what one iteration of the loop (lines 56-123) appends for the segment in
\* thread t, or the exception it raises
LoopBodyOutcome(table, segment_value, t) ==
    LET segment_entry == table.segmentations[t.call.segment_by][segment_value]
        failure == SegmentFailure(segment_entry, t.call.method, t.treatment_levels,
                                  t.call.objective)
        segment_label == make_segment_label(t.call.segment_by, segment_value)
    IN IF failure # "ok"
       THEN [failure |-> failure]
       ELSE LET treatment_map == _as_int_keyed_map(segment_entry[t.call.method])
            IN [failure |-> "ok",
                row |-> SegmentRow(treatment_map, t.candidate_treatments, t.baseline_level,
                                   t.call.objective, segment_label),
                chart |-> [segment |-> segment_label,
                           points |-> CurvePoints(treatment_map, t.treatment_levels,
                                                  t.candidate_treatments, t.call.objective)]]

\* the table with the method's entry of the segment taken out
WithoutMethod(table, segment_by, segment_value, method) ==
    [table EXCEPT !.segmentations[segment_by][segment_value] =
        [m \in DOMAIN @ \ {method} |-> @[m]]]

\* the iteration with segment_entry.pop(method) in the place of
\* segment_entry.get(method)
LoopBodyPopsMethod(table, segment_value, t) ==
    [outcome |-> LoopBodyOutcome(table, segment_value, t),
     table |-> WithoutMethod(table, t.call.segment_by, segment_value, t.call.method)]

\* One iteration and the table it leaves: segment_entry.get(method) reads,
\* _as_int_keyed_map builds a new dict from the one it is given, every
\* subscript is a load, and the appends go to the thread's own lists; nothing
\* is stored into the table.
LoopBody(table, segment_value, t) ==
    [outcome |-> LoopBodyOutcome(table, segment_value, t),
     table |-> table]

\* one iteration of the loop over the segments
LoopStep(c) ==
    /\ threads[c] # None
    /\ threads[c].pc = "loop"
    /\ Len(threads[c].segments) < Len(threads[c].order)
    /\ LET t == threads[c]
           body == LoopBody(artifact, t.order[Len(t.segments) + 1], t)
       IN /\ artifact' = body.table
          /\ threads' = [threads EXCEPT ![c] =
                IF body.outcome.failure = "KeyError"
                THEN [t EXCEPT !.pc = "done", !.result = Raise("KeyError", "KeyError"),
                               !.overlapped = @ \/ Overlaps(c)]
                ELSE IF body.outcome.failure # "ok"
                THEN [t EXCEPT !.pc = "done", !.result = Raise("ValueError", "UnsupportedMethod"),
                               !.overlapped = @ \/ Overlaps(c)]
                ELSE [t EXCEPT !.segments = Append(@, body.outcome.row),
                               !.chart_payload = Append(@, body.outcome.chart),
                               !.overlapped = @ \/ Overlaps(c)]]
    /\ UNCHANGED <<manifest, call, locals, outcome, buildVars, cacheVars, serveVars, estVars>>

\* lines 125-132
Return(c) ==
    /\ threads[c] # None
    /\ threads[c].pc = "loop"
    /\ Len(threads[c].segments) = Len(threads[c].order)
    /\ LET t == threads[c]
       IN threads' = [threads EXCEPT ![c] =
            [t EXCEPT !.pc = "done",
                      !.overlapped = @ \/ Overlaps(c),
                      !.result = [status |-> "ok",
                                  segments |-> t.segments,
                                  dose_response |-> t.chart_payload,
                                  baseline |-> [name |-> t.baseline_name,
                                                policy_level |-> t.baseline_level]]]]
    /\ UNCHANGED <<policyVars, buildVars, cacheVars, serveVars, estVars>>

NextConcurrent ==
    \E c \in Callers : CallStart(c) \/ Prologue(c) \/ LoopStep(c) \/ Return(c)

SpecConcurrent == InitConcurrent /\ [][NextConcurrent]_vars

Returned(c) == threads[c] # None /\ threads[c].pc = "done"

\* what the call gives when it runs alone on the table it was passed
CalledAlone(c) ==
    recommend_policy(threads[c].seen, threads[c].call.objective,
                     threads[c].call.max_policy_level, threads[c].call.segment_by,
                     threads[c].call.method)

\* C20: recommend_policy stores nothing: once a call has returned or raised,
\* the dose-response table it was passed is as it was when the call was
\* made, and calls that run at the same time on one table, with no lock,
\* each give what the call gives when it runs alone.
C20_NoMutationSoConcurrentAsSequential ==
    \A c \in Callers :
        Returned(c) => /\ artifact = threads[c].seen
                       /\ threads[c].result = CalledAlone(c)

\* two calls on the same segmentation and method ran interleaved, iteration
\* by iteration, and both returned a recommendation
C20_Witness ==
    \E c, o \in Callers :
        /\ c # o
        /\ Returned(c) /\ Returned(o)
        /\ threads[c].overlapped /\ threads[o].overlapped
        /\ threads[c].call.segment_by = "device_tier"
        /\ threads[o].call.segment_by = "device_tier"
        /\ threads[c].call.method = threads[o].call.method
        /\ threads[c].result.status = "ok"
        /\ threads[o].result.status = "ok"

====
